---- MODULE Spec2Model ----
(***************************************************************************)
(* Order lifecycle engine of the order-processing microservice:            *)
(*   - the orders table and its conditional status write                   *)
(*     (internal/repository/order_repository.go),                          *)
(*   - the command service: CreateOrder, UpdateOrderStatus, CancelOrder    *)
(*     (internal/services/order_service.go),                               *)
(*   - the event processor: HandleEvent, handleOrderCreated,               *)
(*     handleOrderProcessing, ProcessPendingOrders (OrderProcessor),       *)
(*   - the broker as the log of events accepted by PublishEvent, from      *)
(*     which any event may be delivered any number of times, in any order. *)
(* Every call is split at its suspension points (store read, store write,  *)
(* publish), so calls of concurrent requests and workers interleave.       *)
(***************************************************************************)
EXTENDS Integers, Sequences, FiniteSets, TLC

\* ------------------------------------------------------------------ bounds
MaxOrders == 1      \* order ids handed out by uuid.New()
MaxProcs  == 2      \* concurrent requests / consumer workers
MaxVersion == 4     \* no call starts on an order whose version has reached this
MaxEvents == 3      \* capacity of the topic
MaxTime   == 1      \* readings of the wall clock are 0..MaxTime
MaxPartitions == 2  \* partitions of the order topic
MaxMessages == 3    \* messages a run of the Kafka adapter publishes

OrderIds == 1..MaxOrders
Procs    == 1..MaxProcs
Partitions == 1..MaxPartitions

\* --------------------------------------------------------- models.Order
OrderStatusPending    == "pending"
OrderStatusProcessing == "processing"
OrderStatusCompleted  == "completed"
OrderStatusCanceled   == "canceled"
OrderStatusFailed     == "failed"

Statuses == {OrderStatusPending, OrderStatusProcessing, OrderStatusCompleted,
             OrderStatusCanceled, OrderStatusFailed}

\* a status string outside the enumeration (OrderStatus is a plain string)
UnknownStatus == "shipped"
RequestStatuses == Statuses \cup {UnknownStatus}

\* the zero value of models.Order; id 0 stands for "no order" (a nil *Order)
NoOrder == [id |-> 0, customer_id |-> "", status |-> "", items |-> <<>>,
            total_amount |-> 0, created_at |-> 0, updated_at |-> 0, version |-> 0]

\* models.OrderItem; amounts are exact hundredths here (the float64 arithmetic of
\* the code is in the section "float64 amounts")
OrderItem(product, quantity, price, total) ==
    [product_id |-> product, quantity |-> quantity, price |-> price, total |-> total]

\* models.CreateOrderRequest values the clients send: two well-formed requests, a
\* request without items, one whose second item has quantity 0, one with a
\* negative price and one that names the same product twice
Requests ==
    { [customer_id |-> "c1", items |-> <<[product_id |-> "p1", quantity |-> 2, price |-> 2999]>>],
      [customer_id |-> "c2", items |-> <<[product_id |-> "p1", quantity |-> 2, price |-> 2999],
                                          [product_id |-> "p2", quantity |-> 1, price |-> 1550]>>],
      [customer_id |-> "c3", items |-> <<>>],
      [customer_id |-> "c4", items |-> <<[product_id |-> "p1", quantity |-> 2, price |-> 2999],
                                          [product_id |-> "p2", quantity |-> 0, price |-> 1550]>>],
      [customer_id |-> "c5", items |-> <<[product_id |-> "p1", quantity |-> 1, price |-> 0 - 100]>>],
      [customer_id |-> "c6", items |-> <<[product_id |-> "p1", quantity |-> 1, price |-> 2999],
                                          [product_id |-> "p1", quantity |-> 2, price |-> 2999]>>] }
NoRequest == [customer_id |-> "", items |-> <<>>]

RECURSIVE SumTotals(_)
SumTotals(items) ==
    IF items = <<>> THEN 0
    ELSE items[1].price * items[1].quantity + SumTotals(Tail(items))

\* Order.CalculateTotalAmount: item is a copy inside the range loop, so the
\* items of the order keep Total = 0; only TotalAmount is set.
CalculateTotalAmount(order) == [order EXCEPT !.total_amount = SumTotals(order.items)]

\* the transition table of Order.IsValidStatusTransition
validTransitions ==
    [s \in Statuses |->
        CASE s = OrderStatusPending    -> <<OrderStatusProcessing, OrderStatusCanceled>>
          [] s = OrderStatusProcessing -> <<OrderStatusCompleted, OrderStatusFailed, OrderStatusCanceled>>
          [] s = OrderStatusCompleted  -> <<>>
          [] s = OrderStatusCanceled   -> <<>>
          [] s = OrderStatusFailed     -> <<OrderStatusPending>>]

\* a table that also lets a completed order be reopened
IsValidStatusTransition_Reopen(status, newStatus) ==
    \/ /\ status \in DOMAIN validTransitions
       /\ \E i \in 1..Len(validTransitions[status]) : validTransitions[status][i] = newStatus
    \/ status = OrderStatusCompleted /\ newStatus = OrderStatusPending

\* a table without the retry edge out of failed
IsValidStatusTransition_NoRetry(status, newStatus) ==
    /\ status \in DOMAIN validTransitions
    /\ status # OrderStatusFailed
    /\ \E i \in 1..Len(validTransitions[status]) : validTransitions[status][i] = newStatus

IsValidStatusTransition(status, newStatus) ==
    /\ status \in DOMAIN validTransitions
    /\ \E i \in 1..Len(validTransitions[status]) : validTransitions[status][i] = newStatus

\* --------------------------------------------------------- models.Event
OrderCreatedEvent       == "order.created"
OrderStatusChangedEvent == "order.status.changed"
OrderProcessingEvent    == "order.processing"
OrderCompletedEvent     == "order.completed"
OrderFailedEvent        == "order.failed"
OrderCanceledEvent      == "order.canceled"

NoEvent == [id |-> 0, type |-> "", data |-> [order_id |-> 0]]

NewEvent(eid, eventType, data) == [id |-> eid, type |-> eventType, data |-> data]

NewOrderCreatedEvent(eid, order) ==
    NewEvent(eid, OrderCreatedEvent,
             [order_id |-> order.id, customer_id |-> order.customer_id,
              items |-> order.items, total_amount |-> order.total_amount,
              created_at |-> order.created_at])

\* a constructor that reports a cancellation as order.canceled
NewOrderStatusChangedEvent_Canceled(eid, order, oldStatus, reason) ==
    IF order.status = OrderStatusCanceled
    THEN NewEvent(eid, OrderCanceledEvent,
                  [order_id |-> order.id, customer_id |-> order.customer_id,
                   canceled_at |-> order.updated_at, reason |-> reason])
    ELSE NewEvent(eid, OrderStatusChangedEvent,
                  [order_id |-> order.id, customer_id |-> order.customer_id,
                   old_status |-> oldStatus, new_status |-> order.status,
                   updated_at |-> order.updated_at, reason |-> reason])

NewOrderStatusChangedEvent(eid, order, oldStatus, reason) ==
    NewEvent(eid, OrderStatusChangedEvent,
             [order_id |-> order.id, customer_id |-> order.customer_id,
              old_status |-> oldStatus, new_status |-> order.status,
              updated_at |-> order.updated_at, reason |-> reason])

NewOrderProcessingEvent(eid, order) ==
    NewEvent(eid, OrderProcessingEvent,
             [order_id |-> order.id, customer_id |-> order.customer_id])

NewOrderCompletedEvent(eid, order) ==
    NewEvent(eid, OrderCompletedEvent,
             [order_id |-> order.id, customer_id |-> order.customer_id,
              total_amount |-> order.total_amount])

NewOrderFailedEvent(eid, order, reason, errorMsg) ==
    NewEvent(eid, OrderFailedEvent,
             [order_id |-> order.id, customer_id |-> order.customer_id,
              reason |-> reason, error |-> errorMsg])

\* ------------------------------------------------ PostgresOrderRepository
\* The orders table is a function from the ids of the stored rows to rows.

\* Create: the row written by the INSERT (timestamps and version are set by
\* Create; each item row gets total = price * quantity).
StoredItems(items) ==
    [i \in 1..Len(items) |->
        OrderItem(items[i].product_id, items[i].quantity, items[i].price,
                  items[i].price * items[i].quantity)]

\* a Create that numbers versions from 0
CreateRow_FromZero(order, t) ==
    [order EXCEPT !.created_at = t, !.updated_at = t, !.version = 0]

CreateRow(order, t) ==
    [order EXCEPT !.created_at = t, !.updated_at = t, !.version = 1]

\* order_items: "quantity INTEGER NOT NULL CHECK (quantity > 0)",
\* "price DECIMAL(10, 2) NOT NULL CHECK (price >= 0)", "UNIQUE(order_id, product_id)"
ItemConstraints(rows, item) ==
    /\ item.quantity > 0
    /\ item.price >= 0
    /\ \A k \in 1..Len(rows) : rows[k].product_id # item.product_id

\* an INSERT of the order row sent outside the transaction: it is committed at once
ExecInsertOrder_Autocommit(tbl, work, row) ==
    [tbl |-> (row.id :> [row EXCEPT !.items = <<>>]) @@ tbl,
     work |-> (row.id :> [row EXCEPT !.items = <<>>]) @@ work]

\* tx.ExecContext(ctx, orderQuery, ...): the row is written in the transaction's
\* view of the table (work), not in the committed table (tbl)
ExecInsertOrder(tbl, work, row) ==
    [tbl |-> tbl, work |-> (row.id :> [row EXCEPT !.items = <<>>]) @@ work]

\* the loop "for _, item := range order.Items": tx.ExecContext(ctx, itemQuery, ...)
\* for item i and the following ones; the insert fails on a store error (failAt)
\* or on a constraint of order_items
RECURSIVE InsertItems(_, _, _, _)
InsertItems(work, order, i, failAt) ==
    IF i > Len(order.items) THEN [work |-> work, failed |-> FALSE]
    ELSE LET item == StoredItems(order.items)[i] IN
         IF failAt = i \/ ~ItemConstraints(work[order.id].items, item)
         THEN [work |-> work, failed |-> TRUE]
         ELSE InsertItems([work EXCEPT ![order.id].items = Append(@, item)], order, i + 1, failAt)

\* tx.Commit(): the rows written in the transaction become the committed rows
TxCommit(tbl, work, id) == (id :> work[id]) @@ tbl

\* Create: BeginTx, the INSERT of the order, the INSERTs of the items, Commit;
\* "defer tx.Rollback()" drops the transaction's rows on every error return.
\* failAt: 0 no store error, 1 BeginTx, 2 order INSERT, 2 + i INSERT of item i,
\* Len(items) + 3 Commit.
Create(tbl, order, t, failAt) ==
    LET row   == CreateRow(order, t)
        n     == Len(order.items)
        first == ExecInsertOrder(tbl, tbl, row)
        rest  == InsertItems(first.work, row, 1, failAt - 2)
    IN IF failAt = 1 THEN [tbl |-> tbl, err |-> "failed to begin transaction", order |-> order]
       ELSE IF failAt = 2 THEN [tbl |-> tbl, err |-> "failed to insert order", order |-> row]
       ELSE IF rest.failed THEN [tbl |-> first.tbl, err |-> "failed to insert order item", order |-> row]
       ELSE IF failAt = n + 3 THEN [tbl |-> first.tbl, err |-> "failed to commit transaction", order |-> row]
       ELSE [tbl |-> TxCommit(first.tbl, rest.work, row.id), err |-> "nil", order |-> row]

\* UpdateStatus: rows matched by "WHERE id = $1 AND version = $5"
\* an UPDATE whose WHERE clause forgets the version
RowsAffected_NoVersion(tbl, id, version) ==
    IF id \in DOMAIN tbl THEN 1 ELSE 0

RowsAffected(tbl, id, version) ==
    IF id \in DOMAIN tbl /\ tbl[id].version = version THEN 1 ELSE 0

\* an UPDATE that does not bump the version
UpdateStatusRow_KeepVersion(row, status, t, version) ==
    [row EXCEPT !.status = status, !.updated_at = t]

\* an UPDATE that also stamps created_at
UpdateStatusRow_Restamped(row, status, t, version) ==
    [row EXCEPT !.status = status, !.created_at = t, !.updated_at = t, !.version = version + 1]

\* UpdateStatus: "SET status = $2, updated_at = $3, version = $4" with $4 = version + 1
UpdateStatusRow(row, status, t, version) ==
    [row EXCEPT !.status = status, !.updated_at = t, !.version = version + 1]

UpdateStatus(tbl, id, status, t, version) ==
    IF RowsAffected(tbl, id, version) = 0 THEN tbl
    ELSE [tbl EXCEPT ![id] = UpdateStatusRow(tbl[id], status, t, version)]

\* ------------------------------------------------------------------ state
VARIABLES
    orders,     \* the orders table: stored order id -> row (with its item rows)
    events,     \* the broker topic: events accepted by PublishEvent, in order
    procs,      \* the running service calls and consumer workers
    sweeper,    \* the periodic ProcessPendingOrders task of the consumer
    commits,    \* per order id: the committed status mutations, in order
    nextId,     \* order ids handed out so far
    now,        \* the wall clock
    topic,      \* Kafka adapter: the partitions of the order topic, each a log of messages
    group,      \* Kafka adapter: per partition, the consumer group's claim on it
    consumer    \* Kafka adapter: the KafkaConsumer, its two goroutines and its Close

vars == <<orders, events, procs, sweeper, commits, nextId, now, topic, group, consumer>>

\* the state of the lifecycle engine and the state of the Kafka adapter
engine == <<orders, procs, sweeper, commits, nextId, now>>
kafka  == <<topic, group, consumer>>

IdleProc ==
    [op |-> "idle", pc |-> "idle", id |-> 0, req |-> NoRequest, newStatus |-> "",
     reason |-> "", event |-> NoEvent, order |-> NoOrder, oldStatus |-> "",
     success |-> FALSE, wrote |-> "none", pubs |-> <<>>, err |-> "", ret |-> NoOrder,
     at |-> 0, code |-> 0, stats |-> <<>>]

IdleSweeper == [pc |-> "idle", pending |-> <<>>, i |-> 1, pubs |-> <<>>, err |-> ""]

\* a claim at the start of the partition: nothing read, nothing marked, nothing
\* committed (offsets are counted from 1 here, from 0 in Kafka)
NoClaim == [next |-> 1, marked |-> 1, committed |-> 1, results |-> <<>>]

\* the calls of Close: main defers one and makes another on shutdown
MaxClosers == 2
Closers == 1..MaxClosers

\* NewKafkaConsumer: cancel is nil, the WaitGroup counts nothing, no goroutine
\* runs, the consumer group is open; Close has not been called
NewKafkaConsumer ==
    [cancel |-> FALSE, ctx |-> "none", wg |-> 0, loop |-> "none", drain |-> "none",
     errors |-> 0, close |-> [i \in Closers |-> "idle"], closed |-> FALSE, err |-> ""]

Init ==
    /\ orders = <<>>
    /\ events = <<>>
    /\ procs = [p \in Procs |-> IdleProc]
    /\ sweeper = IdleSweeper
    /\ commits = [id \in OrderIds |-> <<>>]
    /\ nextId = 0
    /\ now = 0
    /\ topic = [k \in Partitions |-> <<>>]
    /\ group = [k \in Partitions |-> NoClaim]
    /\ consumer = NewKafkaConsumer

\* time.Now(): the clock never runs backwards
ClockReads == {t \in {now, now + 1} : t <= MaxTime}

\* the instants a stamp taken by a running call can show: UpdateStatus evaluates
\* time.Now().UTC() as an argument before the statement reaches the database, so
\* the stamp was read at some instant after the call loaded the order (call.at)
\* and other calls may have read the clock since
StampReads(call) == {t \in call.at..(now + 1) : t <= MaxTime}

\* the latest instant any call has read
Later(t) == IF t > now THEN t ELSE now

\* outcome of a store call or of PublishEvent: nil or an error of the collaborator
Outcomes == {"nil", "error"}

\* GetByID: the row of the order table (with its items), or "order not found"
GetByID(tbl, id) == IF id \in DOMAIN tbl THEN tbl[id] ELSE NoOrder

\* fmt.Errorf("<text>: %w", err): the text of the wrapped error
Errorf(text, err) == text \o ": " \o err

\* the text of an error of the database driver
StoreError == "connection refused"

\* GetByID: "if err == sql.ErrNoRows { return nil, fmt.Errorf("order not found") }",
\* any other error is returned as "failed to get order: %w"
ErrOrderNotFound == "order not found"
GetByIDError(tbl, id, outcome) ==
    IF outcome = "error" THEN Errorf("failed to get order", StoreError)
    ELSE IF id \notin DOMAIN tbl THEN ErrOrderNotFound
    ELSE "nil"

\* the errors a caller of GetByID returns as "failed to get order: %w"
FailedToGetOrder ==
    {Errorf("failed to get order", e) : e \in {ErrOrderNotFound, Errorf("failed to get order", StoreError)}}

\* the HTTP status of the response of a ProducerHandlers handler whose service
\* call returned err; a call of the consumer has no response (0)
StatusOK                  == 200
StatusCreated             == 201
StatusBadRequest          == 400
StatusNotFound            == 404
StatusInternalServerError == 500
StatusCode(op, err) ==
    IF op = "CreateOrder"
    THEN (IF err = "nil" THEN StatusCreated ELSE StatusInternalServerError)
    ELSE IF op = "GetOrder"
    THEN (IF err = "nil" THEN StatusOK
          ELSE IF err = "order not found" THEN StatusNotFound
          ELSE StatusInternalServerError)
    ELSE IF op \in {"UpdateOrderStatus", "CancelOrder"}
    THEN (IF err = "nil" THEN StatusOK
          ELSE IF err = "order not found" THEN StatusNotFound
          ELSE StatusBadRequest)
    ELSE IF op = "GetOrderStats"
    THEN (IF err = "nil" THEN StatusOK ELSE StatusInternalServerError)
    ELSE 0

\* PublishEvent: the producer appends the event to the topic when it succeeds
PublishEvent(accepted, event, outcome) ==
    IF outcome = "nil" THEN Append(accepted, event) ELSE accepted

Commit(id, op, from, to, version) ==
    [commits EXCEPT ![id] = Append(@, [op |-> op, from |-> from, to |-> to, version |-> version])]

\* uuid.New() of NewEvent: the events of the topic have distinct ids
NewEventId == Len(events) + 1

\* a call or tick that is returning: its result is handed to the caller before
\* anything else happens (the return itself touches neither store nor topic)
Returning == (\E q \in Procs : procs[q].pc = "done") \/ sweeper.pc = "done"

\* a goroutine that is not inside a call can take the next one
Free(p) == procs[p].pc = "idle" /\ ~Returning

\* events that the calls and the tick already started may still publish
Reserved ==
    Cardinality({p \in Procs : ~Free(p)})
      + (IF sweeper.pc = "publish" THEN Len(sweeper.pending) - sweeper.i + 1 ELSE 0)

\* a call that may publish n events starts only while the topic has room for them
Room(n) == Len(events) + Reserved + n <= MaxEvents

\* a call that may write an order starts only below the version bound
BelowMaxVersion(id) == id \in DOMAIN orders => orders[id].version < MaxVersion

\* the call has run to its return statement
Finish(p, rec) ==
    procs' = [procs EXCEPT ![p] = [rec EXCEPT !.pc = "done", !.code = StatusCode(rec.op, rec.err)]]

\* ------------------------------------------------------- OrderService
\* the store errors a Create for this request can meet (see Create)
CreateFailures(req) == 0..(Len(req.items) + 3)

\* CreateOrder up to and including orderRepo.Create
CreateOrder(p, req) ==
    /\ Free(p)
    /\ Room(1)
    /\ nextId < MaxOrders
    /\ LET id    == nextId + 1
           order == CalculateTotalAmount(
                        [NoOrder EXCEPT !.id = id, !.customer_id = req.customer_id,
                                        !.status = OrderStatusPending,
                                        !.items = [i \in 1..Len(req.items) |->
                                            OrderItem(req.items[i].product_id, req.items[i].quantity,
                                                      req.items[i].price, 0)]])
           call  == [IdleProc EXCEPT !.op = "CreateOrder", !.id = id, !.req = req]
       IN /\ nextId' = id
          /\ \E failAt \in CreateFailures(req), t \in ClockReads :
                LET res == Create(orders, order, t, failAt) IN
                /\ orders' = res.tbl
                /\ now' = IF failAt = 1 THEN now ELSE t
                /\ IF res.err = "nil"
                   THEN procs' = [procs EXCEPT ![p] =
                            [call EXCEPT !.pc = "publish", !.order = res.order, !.wrote = "ok"]]
                   ELSE Finish(p, [call EXCEPT !.err = "failed to create order", !.wrote = "error"])
    /\ UNCHANGED <<events, sweeper, commits>>

\* a CreateOrder that fails when its event cannot be published
CreateOrderPublish_Failing(p) ==
    /\ ~Returning /\ procs[p].op = "CreateOrder" /\ procs[p].pc = "publish"
    /\ LET event == NewOrderCreatedEvent(NewEventId, procs[p].order)
       IN \E outcome \in Outcomes :
            /\ events' = PublishEvent(events, event, outcome)
            /\ IF outcome = "nil"
               THEN Finish(p, [procs[p] EXCEPT !.pubs = Append(@, event), !.err = "nil",
                                               !.ret = procs[p].order])
               ELSE Finish(p, [procs[p] EXCEPT !.pubs = Append(@, event),
                                               !.err = "failed to publish event"])
    /\ UNCHANGED <<orders, sweeper, commits, nextId, now>>

\* CreateOrder from NewOrderCreatedEvent to its return
CreateOrderPublish(p) ==
    /\ ~Returning /\ procs[p].op = "CreateOrder" /\ procs[p].pc = "publish"
    /\ LET event == NewOrderCreatedEvent(NewEventId, procs[p].order)
       IN /\ \E outcome \in Outcomes : events' = PublishEvent(events, event, outcome)
          /\ Finish(p, [procs[p] EXCEPT !.pubs = Append(@, event), !.err = "nil",
                                        !.ret = procs[p].order])
    /\ UNCHANGED <<orders, sweeper, commits, nextId, now>>

\* UpdateOrderStatus up to its conditional write: GetByID and the transition check
UpdateOrderStatusLoad(p, id, newStatus, via) ==
    /\ Free(p)
    /\ Room(1)
    /\ BelowMaxVersion(id)
    /\ LET call == [IdleProc EXCEPT !.op = via, !.id = id, !.newStatus = newStatus,
                                    !.reason = "requested"]
       IN \E outcome \in Outcomes :
            LET order == GetByID(orders, id) IN
            IF outcome = "error" \/ order = NoOrder
            THEN Finish(p, [call EXCEPT !.err = Errorf("failed to get order",
                                                         GetByIDError(orders, id, outcome))])
            ELSE IF ~IsValidStatusTransition(order.status, newStatus)
            THEN Finish(p, [call EXCEPT !.order = order, !.err = "invalid status transition"])
            ELSE procs' = [procs EXCEPT ![p] =
                    [call EXCEPT !.pc = "write", !.order = order, !.oldStatus = order.status,
                                 !.at = now]]
    /\ UNCHANGED <<orders, events, sweeper, commits, nextId, now>>

UpdateOrderStatus(p, id, newStatus) == UpdateOrderStatusLoad(p, id, newStatus, "UpdateOrderStatus")

\* a CancelOrder that asks for the wrong status
CancelOrder_AsFailed(p, id) == UpdateOrderStatusLoad(p, id, OrderStatusFailed, "CancelOrder")

\* CancelOrder: "return s.UpdateOrderStatus(ctx, id, models.OrderStatusCanceled, reason)"
CancelOrder(p, id) == UpdateOrderStatusLoad(p, id, OrderStatusCanceled, "CancelOrder")

ServiceCalls == {"UpdateOrderStatus", "CancelOrder"}

\* an UpdateOrderStatus that goes on to publish although its write found no row
UpdateOrderStatusWrite_PublishAnyway(p) ==
    /\ ~Returning /\ procs[p].op \in ServiceCalls /\ procs[p].pc = "write"
    /\ LET call == [procs[p] EXCEPT !.at = 0] IN
       \E outcome \in Outcomes, t \in StampReads(procs[p]) :
          IF outcome = "error"
          THEN /\ Finish(p, [call EXCEPT !.wrote = "error", !.err = "failed to update order status"])
               /\ UNCHANGED <<orders, commits, now>>
          ELSE IF RowsAffected(orders, call.id, call.order.version) = 0
          THEN /\ procs' = [procs EXCEPT ![p] = [call EXCEPT !.pc = "publish", !.wrote = "conflict"]]
               /\ now' = Later(t)
               /\ UNCHANGED <<orders, commits>>
          ELSE /\ orders' = UpdateStatus(orders, call.id, call.newStatus, t, call.order.version)
               /\ commits' = Commit(call.id, call.op, orders[call.id].status, call.newStatus,
                                    orders'[call.id].version)
               /\ now' = Later(t)
               /\ procs' = [procs EXCEPT ![p] = [call EXCEPT !.pc = "publish", !.wrote = "ok"]]
    /\ UNCHANGED <<events, sweeper, nextId>>

\* an UpdateOrderStatus that loads the order again and writes again after a conflict
UpdateOrderStatusWrite_Retrying(p) ==
    /\ ~Returning /\ procs[p].op \in ServiceCalls /\ procs[p].pc = "write"
    /\ LET call == [procs[p] EXCEPT !.at = 0] IN
       \E outcome \in Outcomes, t \in StampReads(procs[p]) :
          IF outcome = "error"
          THEN /\ Finish(p, [call EXCEPT !.wrote = "error", !.err = "failed to update order status"])
               /\ UNCHANGED <<orders, commits, now>>
          ELSE IF RowsAffected(orders, call.id, call.order.version) = 0
          THEN /\ procs' = [procs EXCEPT ![p] =
                        [call EXCEPT !.order = GetByID(orders, call.id),
                                     !.oldStatus = orders[call.id].status]]
               /\ now' = Later(t)
               /\ UNCHANGED <<orders, commits>>
          ELSE /\ orders' = UpdateStatus(orders, call.id, call.newStatus, t, call.order.version)
               /\ commits' = Commit(call.id, call.op, orders[call.id].status, call.newStatus,
                                    orders'[call.id].version)
               /\ now' = Later(t)
               /\ procs' = [procs EXCEPT ![p] = [call EXCEPT !.pc = "publish", !.wrote = "ok"]]
    /\ UNCHANGED <<events, sweeper, nextId>>

\* UpdateOrderStatus: orderRepo.UpdateStatus(ctx, id, newStatus, order.Version)
UpdateOrderStatusWrite(p) ==
    /\ ~Returning /\ procs[p].op \in ServiceCalls /\ procs[p].pc = "write"
    /\ LET call == [procs[p] EXCEPT !.at = 0] IN
       \E outcome \in Outcomes, t \in StampReads(procs[p]) :
          IF outcome = "error"
          THEN /\ Finish(p, [call EXCEPT !.wrote = "error", !.err = "failed to update order status"])
               /\ UNCHANGED <<orders, commits, now>>
          ELSE IF RowsAffected(orders, call.id, call.order.version) = 0
          THEN /\ Finish(p, [call EXCEPT !.wrote = "conflict", !.err = "failed to update order status"])
               /\ now' = Later(t)
               /\ UNCHANGED <<orders, commits>>
          ELSE /\ orders' = UpdateStatus(orders, call.id, call.newStatus, t, call.order.version)
               /\ commits' = Commit(call.id, call.op, orders[call.id].status, call.newStatus,
                                    orders'[call.id].version)
               /\ now' = Later(t)
               /\ procs' = [procs EXCEPT ![p] = [call EXCEPT !.pc = "publish", !.wrote = "ok"]]
    /\ UNCHANGED <<events, sweeper, nextId>>

\* UpdateOrderStatus after the write: the local copy of the order is brought up to
\* date (Status, UpdatedAt = time.Now(), Version++), the event is built from it and
\* published, and the call returns nil
UpdateOrderStatusPublish(p) ==
    /\ ~Returning /\ procs[p].op \in ServiceCalls /\ procs[p].pc = "publish"
    /\ \E t \in ClockReads, outcome \in Outcomes :
         LET updated == [procs[p].order EXCEPT !.status = procs[p].newStatus,
                                               !.updated_at = t, !.version = @ + 1]
             event   == NewOrderStatusChangedEvent(NewEventId, updated,
                                                   procs[p].oldStatus, procs[p].reason)
         IN /\ now' = t
            /\ events' = PublishEvent(events, event, outcome)
            /\ Finish(p, [procs[p] EXCEPT !.pubs = Append(@, event), !.err = "nil"])
    /\ UNCHANGED <<orders, sweeper, commits, nextId>>

\* ------------------------------------------------------- OrderProcessor
\* handleOrderCreated: "if order.Status != models.OrderStatusPending { return nil }"
\* a handler that never takes an order.created event for stale
StaleForCreated_Never(order) == FALSE

\* a handler that only takes order.created for stale once the order is final
StaleForCreated_Final(order) ==
    order.status \in {OrderStatusCompleted, OrderStatusCanceled, OrderStatusFailed}

StaleForCreated(order) == order.status # OrderStatusPending

\* handleOrderProcessing: "if order.Status != models.OrderStatusProcessing { return nil }"
\* a handler that never takes an order.processing event for stale
StaleForProcessing_Never(order) == FALSE

\* a handler that takes every order.processing event for stale
StaleForProcessing_Always(order) == TRUE

StaleForProcessing(order) == order.status # OrderStatusProcessing

\* a dispatcher that reports an event type it has no handler for as an error
HandleEvent_Strict(p, event) ==
    /\ Free(p)
    /\ Room(1)
    /\ LET call == [IdleProc EXCEPT !.op = "HandleEvent", !.event = event,
                                     !.id = event.data.order_id]
       IN IF event.type \notin {OrderCreatedEvent, OrderProcessingEvent}
          THEN Finish(p, [call EXCEPT !.err = "unhandled event type"])
          ELSE \E outcome \in Outcomes :
                 LET order == GetByID(orders, event.data.order_id)
                     stale == IF event.type = OrderCreatedEvent
                              THEN StaleForCreated(order) ELSE StaleForProcessing(order)
                 IN IF outcome = "error" \/ order = NoOrder
                    THEN Finish(p, [call EXCEPT !.err =
                            Errorf("failed to get order",
                                   GetByIDError(orders, event.data.order_id, outcome))])
                    ELSE IF stale
                    THEN Finish(p, [call EXCEPT !.order = order, !.err = "nil"])
                    ELSE procs' = [procs EXCEPT ![p] =
                            [call EXCEPT !.pc = "write", !.order = order, !.at = now]]
    /\ UNCHANGED <<orders, events, sweeper, commits, nextId, now>>

\* HandleEvent: the switch on event.Type, then the handler up to its status check
HandleEvent(p, event) ==
    /\ Free(p)
    /\ Room(1)
    /\ LET call == [IdleProc EXCEPT !.op = "HandleEvent", !.event = event,
                                     !.id = event.data.order_id]
       IN IF event.type \notin {OrderCreatedEvent, OrderProcessingEvent}
          THEN Finish(p, [call EXCEPT !.err = "nil"])
          ELSE \E outcome \in Outcomes :
                 LET order == GetByID(orders, event.data.order_id)
                     stale == IF event.type = OrderCreatedEvent
                              THEN StaleForCreated(order) ELSE StaleForProcessing(order)
                 IN IF outcome = "error" \/ order = NoOrder
                    THEN Finish(p, [call EXCEPT !.err =
                            Errorf("failed to get order",
                                   GetByIDError(orders, event.data.order_id, outcome))])
                    ELSE IF stale
                    THEN Finish(p, [call EXCEPT !.order = order, !.err = "nil"])
                    ELSE procs' = [procs EXCEPT ![p] =
                            [call EXCEPT !.pc = "write", !.order = order, !.at = now]]
    /\ UNCHANGED <<orders, events, sweeper, commits, nextId, now>>

\* a handler that takes a lost race for handled: it returns nil on a version conflict
HandlerWrite_Absorbing(p, status, opName, errText) ==
    LET call == [procs[p] EXCEPT !.at = 0] IN
    \E outcome \in Outcomes, t \in StampReads(procs[p]) :
       IF outcome = "error"
       THEN /\ Finish(p, [call EXCEPT !.wrote = "error", !.err = errText])
            /\ UNCHANGED <<orders, commits, now>>
       ELSE IF RowsAffected(orders, call.order.id, call.order.version) = 0
       THEN /\ Finish(p, [call EXCEPT !.wrote = "conflict", !.err = "nil"])
            /\ now' = Later(t)
            /\ UNCHANGED <<orders, commits>>
       ELSE /\ orders' = UpdateStatus(orders, call.order.id, status, t, call.order.version)
            /\ commits' = Commit(call.order.id, opName, orders[call.order.id].status, status,
                                 orders'[call.order.id].version)
            /\ now' = Later(t)
            /\ procs' = [procs EXCEPT ![p] =
                    [call EXCEPT !.pc = "publish", !.wrote = "ok", !.newStatus = status]]

\* a handler that writes its result whatever version the row has reached
HandlerWrite_Unconditional(p, status, opName, errText) ==
    LET call == [procs[p] EXCEPT !.at = 0] IN
    \E outcome \in Outcomes, t \in StampReads(procs[p]) :
       IF outcome = "error"
       THEN /\ Finish(p, [call EXCEPT !.wrote = "error", !.err = errText])
            /\ UNCHANGED <<orders, commits, now>>
       ELSE /\ orders' = UpdateStatus(orders, call.order.id, status, t, orders[call.order.id].version)
            /\ commits' = Commit(call.order.id, opName, orders[call.order.id].status, status,
                                 orders'[call.order.id].version)
            /\ now' = Later(t)
            /\ procs' = [procs EXCEPT ![p] =
                    [call EXCEPT !.pc = "publish", !.wrote = "ok", !.newStatus = status]]

\* the conditional write of a handler: UpdateStatus(ctx, order.ID, status, order.Version)
HandlerWrite(p, status, opName, errText) ==
    LET call == [procs[p] EXCEPT !.at = 0] IN
    \E outcome \in Outcomes, t \in StampReads(procs[p]) :
       IF outcome = "error"
       THEN /\ Finish(p, [call EXCEPT !.wrote = "error", !.err = errText])
            /\ UNCHANGED <<orders, commits, now>>
       ELSE IF RowsAffected(orders, call.order.id, call.order.version) = 0
       THEN /\ Finish(p, [call EXCEPT !.wrote = "conflict", !.err = errText])
            /\ now' = Later(t)
            /\ UNCHANGED <<orders, commits>>
       ELSE /\ orders' = UpdateStatus(orders, call.order.id, status, t, call.order.version)
            /\ commits' = Commit(call.order.id, opName, orders[call.order.id].status, status,
                                 orders'[call.order.id].version)
            /\ now' = Later(t)
            /\ procs' = [procs EXCEPT ![p] =
                    [call EXCEPT !.pc = "publish", !.wrote = "ok", !.newStatus = status]]

\* the status handleOrderCreated writes
\* a handler that completes the order straight away
CreatedTarget_Completed == OrderStatusCompleted

CreatedTarget == OrderStatusProcessing

\* handleOrderCreated: the write of "processing"
handleOrderCreatedWrite(p) ==
    /\ ~Returning /\ procs[p].op = "HandleEvent" /\ procs[p].pc = "write"
    /\ procs[p].event.type = OrderCreatedEvent
    /\ HandlerWrite(p, CreatedTarget, "handleOrderCreated",
                    "failed to update order status to processing")
    /\ UNCHANGED <<events, sweeper, nextId>>

\* handleOrderCreated from NewOrderProcessingEvent to its return
handleOrderCreatedPublish(p) ==
    /\ ~Returning /\ procs[p].op = "HandleEvent" /\ procs[p].pc = "publish"
    /\ procs[p].event.type = OrderCreatedEvent
    /\ LET event == NewOrderProcessingEvent(NewEventId, procs[p].order)
       IN /\ \E outcome \in Outcomes : events' = PublishEvent(events, event, outcome)
          /\ Finish(p, [procs[p] EXCEPT !.pubs = Append(@, event), !.err = "nil"])
    /\ UNCHANGED <<orders, sweeper, commits, nextId, now>>

\* the status handleOrderProcessing writes for the drawn outcome
\* a handler that writes nothing new when the simulated work fails
ProcessingTarget_Stuck(success) ==
    IF success THEN OrderStatusCompleted ELSE OrderStatusProcessing

ProcessingTarget(success) ==
    IF success THEN OrderStatusCompleted ELSE OrderStatusFailed

\* handleOrderProcessing after the sleep: "success := rand.Float32() < 0.9", then the write
handleOrderProcessingWrite(p) ==
    /\ ~Returning /\ procs[p].op = "HandleEvent" /\ procs[p].pc = "write"
    /\ procs[p].event.type = OrderProcessingEvent
    /\ \E success \in BOOLEAN :
         LET status == ProcessingTarget(success) IN
         HandlerWrite(p, status, "handleOrderProcessing",
                      IF success THEN "failed to update order status to completed"
                                 ELSE "failed to update order status to failed")
    /\ UNCHANGED <<events, sweeper, nextId>>

\* a handler that reports every result as a completion
ProcessingResultEvent_Completed(eid, order, status) == NewOrderCompletedEvent(eid, order)

\* the event handleOrderProcessing builds after its write
ProcessingResultEvent(eid, order, status) ==
    IF status = OrderStatusCompleted
    THEN NewOrderCompletedEvent(eid, order)
    ELSE NewOrderFailedEvent(eid, order, "Processing failed",
                             "Random processing failure for simulation")

\* handleOrderProcessing from NewOrderCompletedEvent / NewOrderFailedEvent to its return
handleOrderProcessingPublish(p) ==
    /\ ~Returning /\ procs[p].op = "HandleEvent" /\ procs[p].pc = "publish"
    /\ procs[p].event.type = OrderProcessingEvent
    /\ LET event == ProcessingResultEvent(NewEventId, procs[p].order, procs[p].newStatus)
       IN /\ \E outcome \in Outcomes : events' = PublishEvent(events, event, outcome)
          /\ Finish(p, [procs[p] EXCEPT !.pubs = Append(@, event), !.err = "nil"])
    /\ UNCHANGED <<orders, sweeper, commits, nextId, now>>

\* ------------------------------------------- ProcessPendingOrders (sweeper)
SweepLimit == 100

Min(a, b) == IF a < b THEN a ELSE b

\* a query that sorts the newest rows first
Before_Desc(tbl, a, b) == tbl[a].created_at > tbl[b].created_at

\* "ORDER BY created_at ASC": row a comes before row b
Before(tbl, a, b) == tbl[a].created_at < tbl[b].created_at

\* rows the ORDER BY does not tell apart come in any order
RECURSIVE TiedOrders(_)
TiedOrders(ids) ==
    IF ids = {} THEN {<<>>}
    ELSE UNION {{<<id>> \o s : s \in TiedOrders(ids \ {id})} : id \in ids}

\* the possible orders of the rows of ids under the ORDER BY: the rows before a
\* row m in the middle, in their order, then the others in theirs
RECURSIVE OrderedBy(_, _)
OrderedBy(tbl, ids) ==
    IF \A a, b \in ids : ~Before(tbl, a, b) THEN TiedOrders(ids)
    ELSE LET before(m) == {a \in ids : Before(tbl, a, m)}
             off(m)    == 2 * Cardinality(before(m)) - Cardinality(ids)
             dist(m)   == IF off(m) < 0 THEN 0 - off(m) ELSE off(m)
             splits    == {m \in ids : before(m) # {}}
             m         == CHOOSE x \in splits : \A y \in splits : dist(x) <= dist(y)
         IN {x \o y : x \in OrderedBy(tbl, before(m)), y \in OrderedBy(tbl, ids \ before(m))}

\* a query that forgets its WHERE clause
GetByStatus_AnyStatus(tbl, status, limit, offset) ==
    LET ids == DOMAIN tbl
        n   == Cardinality(ids)
    IN {[i \in 1..(Min(n, offset + limit) - Min(n, offset)) |-> tbl[s[i + offset]]] :
            s \in OrderedBy(tbl, ids)}

\* a query that leaves out the rows written at the current reading of the clock
GetByStatus_Settled(tbl, status, limit, offset) ==
    LET ids == {id \in DOMAIN tbl : tbl[id].status = status /\ tbl[id].updated_at < now}
        n   == Cardinality(ids)
    IN {[i \in 1..(Min(n, offset + limit) - Min(n, offset)) |-> tbl[s[i + offset]]] :
            s \in OrderedBy(tbl, ids)}

\* GetByStatus: "WHERE status = $1 ORDER BY created_at ASC LIMIT $2 OFFSET $3":
\* the set of possible results
GetByStatus(tbl, status, limit, offset) ==
    LET ids == {id \in DOMAIN tbl : tbl[id].status = status}
        n   == Cardinality(ids)
    IN {[i \in 1..(Min(n, offset + limit) - Min(n, offset)) |-> tbl[s[i + offset]]] :
            s \in OrderedBy(tbl, ids)}

\* a tick starts only while the topic has room for the events it may publish
SweepRoom ==
    Room(Cardinality({id \in DOMAIN orders : orders[id].status = OrderStatusPending}))

\* a tick that asks the store for the orders in processing
ProcessPendingOrders_Processing ==
    /\ sweeper.pc = "idle" /\ ~Returning
    /\ \E outcome \in Outcomes :
         IF outcome = "error"
         THEN sweeper' = [IdleSweeper EXCEPT !.pc = "done", !.err = "failed to get pending orders"]
         ELSE \E list \in GetByStatus(orders, OrderStatusProcessing, SweepLimit, 0) :
                sweeper' = [IdleSweeper EXCEPT !.pc = IF list = <<>> THEN "done" ELSE "publish",
                                               !.pending = list, !.err = "nil"]
    /\ UNCHANGED <<orders, events, procs, commits, nextId, now>>

\* ProcessPendingOrders up to its loop: the query for the pending orders
ProcessPendingOrders ==
    /\ sweeper.pc = "idle" /\ ~Returning
    /\ \E outcome \in Outcomes :
         IF outcome = "error"
         THEN sweeper' = [IdleSweeper EXCEPT !.pc = "done", !.err = "failed to get pending orders"]
         ELSE \E list \in GetByStatus(orders, OrderStatusPending, SweepLimit, 0) :
                sweeper' = [IdleSweeper EXCEPT !.pc = IF list = <<>> THEN "done" ELSE "publish",
                                               !.pending = list, !.err = "nil"]
    /\ UNCHANGED <<orders, events, procs, commits, nextId, now>>

\* a tick that moves the order on itself when it republishes its event
ProcessPendingOrdersPublish_Moving ==
    /\ sweeper.pc = "publish" /\ ~Returning
    /\ LET row   == sweeper.pending[sweeper.i]
           event == NewOrderCreatedEvent(NewEventId, row)
       IN /\ \E outcome \in Outcomes : events' = PublishEvent(events, event, outcome)
          /\ orders' = UpdateStatus(orders, row.id, OrderStatusProcessing, now, row.version)
          /\ sweeper' = [sweeper EXCEPT !.pubs = Append(@, event), !.i = @ + 1,
                            !.pc = IF sweeper.i = Len(sweeper.pending) THEN "done" ELSE "publish"]
    /\ UNCHANGED <<procs, commits, nextId, now>>

\* one iteration of the loop: republish order.created for the next listed order
ProcessPendingOrdersPublish ==
    /\ sweeper.pc = "publish" /\ ~Returning
    /\ LET event == NewOrderCreatedEvent(NewEventId, sweeper.pending[sweeper.i])
       IN /\ \E outcome \in Outcomes : events' = PublishEvent(events, event, outcome)
          /\ sweeper' = [sweeper EXCEPT !.pubs = Append(@, event), !.i = @ + 1,
                            !.pc = IF sweeper.i = Len(sweeper.pending) THEN "done" ELSE "publish"]
    /\ UNCHANGED <<orders, procs, commits, nextId, now>>

\* the caller takes the result of the call
Return(p) ==
    /\ procs[p].pc = "done"
    /\ procs' = [procs EXCEPT ![p] = IdleProc]
    /\ UNCHANGED <<orders, events, sweeper, commits, nextId, now>>

\* the tick is over; the ticker may fire again
ProcessPendingOrdersReturn ==
    /\ sweeper.pc = "done"
    /\ sweeper' = IdleSweeper
    /\ UNCHANGED <<orders, events, procs, commits, nextId, now>>

\* ----------------------------------------- KafkaProducer / KafkaConsumer
\* uuid.New(): the ids of events and the ids of orders are separate draws, never equal
EventUuid(n) == <<"event", n>>
OrderUuid(n) == <<"order", n>>

\* a producer that keys each message by the order the event concerns
MessageKey_OrderId(event) == OrderUuid(event.data.order_id)

\* PublishEvent: "key := event.ID.String()"
MessageKey(event) == EventUuid(event.id)

\* PublishEvent: the sarama.ProducerMessage built for the event
ProducerMessage(event) == [key |-> MessageKey(event), value |-> event]

\* "saramaConfig.Producer.Partitioner = sarama.NewRandomPartitioner": the
\* partitions a message with this key may be sent to
Partitioner(key, numPartitions) == 1..numPartitions

\* the events of an order in the order its operations publish them
LifecycleEvent(eid, id, n) ==
    LET order == [NoOrder EXCEPT !.id = id, !.customer_id = "c1"] IN
    CASE n = 0 -> NewOrderCreatedEvent(eid, order)
      [] n = 1 -> NewOrderProcessingEvent(eid, order)
      [] OTHER -> NewOrderCompletedEvent(eid, order)

\* the accepted events that concern order id
EventsOf(id) == {i \in 1..Len(events) : events[i].data.order_id = id}

\* KafkaProducer.PublishEvent for the next event of order id: SendMessage appends
\* the message to the partition the partitioner picks, or fails
KafkaPublishEvent(id) ==
    /\ Len(events) < MaxMessages
    /\ LET event   == LifecycleEvent(NewEventId, id, Cardinality(EventsOf(id)))
           message == ProducerMessage(event)
       IN \E outcome \in Outcomes, k \in Partitioner(message.key, MaxPartitions) :
            /\ events' = PublishEvent(events, event, outcome)
            /\ topic' = IF outcome = "nil"
                        THEN [topic EXCEPT ![k] = Append(@, message)] ELSE topic
    /\ UNCHANGED <<group, engine, consumer>>

\* a handler that acknowledges every message it was given
MarkMessage_Always(claim, offset, err) ==
    IF offset + 1 > claim.marked THEN [claim EXCEPT !.marked = offset + 1] ELSE claim

\* ConsumeClaim: "if err := h.processMessage(...); err != nil { ...; continue }",
\* then session.MarkMessage(message, ""), which moves the mark of the partition
\* to offset + 1 unless it is already further
MarkMessage(claim, offset, err) ==
    IF err = "nil" /\ offset + 1 > claim.marked
    THEN [claim EXCEPT !.marked = offset + 1] ELSE claim

\* what the handler has returned for the message at this offset so far: "ok"
\* once it has returned nil for it, "failed" while it only returned errors
Handled(results, offset, err) ==
    LET r == IF err = "nil" THEN "ok" ELSE "failed" IN
    IF offset > Len(results) THEN Append(results, r)
    ELSE IF results[offset] = "ok" THEN results
    ELSE [results EXCEPT ![offset] = r]

\* ConsumeClaim: one turn of the loop on partition k: the next message of the
\* claim is processed (decoded and handed to HandleEvent) and marked if that
\* returned nil; the loop goes on to the following message either way
ConsumeClaim(k) ==
    /\ group[k].next <= Len(topic[k])
    /\ LET offset == group[k].next IN
       \E err \in Outcomes :
          group' = [group EXCEPT ![k] =
                      [MarkMessage(@, offset, err) EXCEPT
                          !.next = offset + 1,
                          !.results = Handled(@, offset, err)]]
    /\ UNCHANGED <<topic, events, engine, consumer>>

\* the consumer group commits the marked offset of the partition (auto-commit)
CommitOffsets(k) ==
    /\ group[k].committed < group[k].marked
    /\ group' = [group EXCEPT ![k].committed = group[k].marked]
    /\ UNCHANGED <<topic, events, engine, consumer>>

\* Subscribe: the session ends (rebalance, error, restart) and the loop calls
\* Consume again: the new claim starts at the committed offset
Consume(k) ==
    /\ group[k].next > group[k].committed
    /\ group' = [group EXCEPT ![k].next = group[k].committed,
                              ![k].marked = group[k].committed]
    /\ UNCHANGED <<topic, events, engine, consumer>>

\* ------------------------------------------------------------ specification
\* the Kafka adapter on its own: events of the orders are published, consumed
\* and acknowledged; the engine is at rest
NextKafka ==
    \/ \E id \in OrderIds : KafkaPublishEvent(id)
    \/ \E k \in Partitions : ConsumeClaim(k)
    \/ \E k \in Partitions : CommitOffsets(k)
    \/ \E k \in Partitions : Consume(k)

SpecKafka == Init /\ [][NextKafka]_vars

\* the sweeper on its own, over tables of up to SweepLimit + 1 orders created one
\* per clock reading, of which the oldest may have left pending
MaxPublishFailures == 1

SweepSizes == {0, 1, 2, SweepLimit, SweepLimit + 1}

CreatedOrder(id, status) ==
    LET order == CalculateTotalAmount(
                    [NoOrder EXCEPT !.id = id, !.customer_id = "c1", !.status = OrderStatusPending,
                                    !.items = <<OrderItem("p1", 2, 2999, 0)>>])
        row   == Create(<<>>, order, id, 0).tbl[id]
    IN IF status = OrderStatusPending THEN row
       ELSE UpdateStatusRow(row, status, id, row.version)

InitSweep ==
    /\ \E n \in SweepSizes, left \in 0..1 :
          /\ orders = [id \in 1..n |->
                          CreatedOrder(id, IF id <= left THEN OrderStatusCanceled
                                                         ELSE OrderStatusPending)]
          /\ commits = [id \in 1..n |->
                          IF id <= left
                          THEN <<[op |-> "CancelOrder", from |-> OrderStatusPending,
                                  to |-> OrderStatusCanceled, version |-> 2]>>
                          ELSE <<>>]
          /\ nextId = n
          /\ now = n
    /\ events = <<>>
    /\ procs = [p \in Procs |-> IdleProc]
    /\ sweeper = IdleSweeper
    /\ topic = [k \in Partitions |-> <<>>]
    /\ group = [k \in Partitions |-> NoClaim]
    /\ consumer = NewKafkaConsumer

\* one tick is followed; the producer fails at most MaxPublishFailures times in it
NextSweep ==
    \/ events = <<>> /\ ProcessPendingOrders /\ UNCHANGED kafka
    \/ /\ ProcessPendingOrdersPublish /\ UNCHANGED kafka
       /\ Len(sweeper'.pubs) - Len(events') <= MaxPublishFailures
    \/ ProcessPendingOrdersReturn /\ UNCHANGED kafka

SpecSweep == InitSweep /\ [][NextSweep]_vars

\* the event processor and the sweeper at work on orders nobody changes by
\* request: the broker delivers every accepted event, the running calls and the
\* ticker go on, and once an order is stored the store and the producer succeed
\* (the publication of CreateOrder itself may still fail: that is the lost event).
\* The runs start with an empty store, or with an order that a retry request
\* has returned to pending and whose earlier events are gone from the topic.
RetriedOrder(id) ==
    LET created    == CreatedOrder(id, OrderStatusPending)
        processing == UpdateStatusRow(created, OrderStatusProcessing, id, created.version)
        failed     == UpdateStatusRow(processing, OrderStatusFailed, id, processing.version)
    IN UpdateStatusRow(failed, OrderStatusPending, id, failed.version)

RetriedCommits ==
    << [op |-> "handleOrderCreated", from |-> OrderStatusPending,
        to |-> OrderStatusProcessing, version |-> 2],
       [op |-> "handleOrderProcessing", from |-> OrderStatusProcessing,
        to |-> OrderStatusFailed, version |-> 3],
       [op |-> "UpdateOrderStatus", from |-> OrderStatusFailed,
        to |-> OrderStatusPending, version |-> 4] >>

\* the events of one lifecycle: order.created, order.processing and the result
LifecycleLength ==
    Cardinality({OrderCreatedEvent, OrderProcessingEvent, OrderCompletedEvent})

\* the orders admitted are those whose lifecycles the topic has room for
Admitted(n) == n <= MaxOrders /\ LifecycleLength * n <= MaxEvents

\* the orders that have not reached the end of their processing
Unresolved ==
    {id \in DOMAIN orders : orders[id].status \in {OrderStatusPending, OrderStatusProcessing}}

InitLive ==
    /\ \E n \in {k \in 0..MaxOrders : Admitted(k)} :
          /\ orders = [id \in 1..n |-> RetriedOrder(id)]
          /\ commits = [id \in OrderIds |-> IF id <= n THEN RetriedCommits ELSE <<>>]
          /\ nextId = n
          /\ now = IF n = 0 THEN 0 ELSE MaxTime
    /\ events = <<>>
    /\ procs = [p \in Procs |-> IdleProc]
    /\ sweeper = IdleSweeper
    /\ topic = [k \in Partitions |-> <<>>]
    /\ group = [k \in Partitions |-> NoClaim]
    /\ consumer = NewKafkaConsumer

\* the broker delivers event i of the topic to a free worker, and the worker's
\* read of the order succeeds; an order takes deliveries up to version MaxVersion
Deliver(i) ==
    \E p \in Procs :
        /\ i <= Len(events)
        /\ events[i].data.order_id \in DOMAIN orders
              => orders[events[i].data.order_id].version <= MaxVersion
        /\ HandleEvent(p, events[i])
        /\ procs'[p].err \notin FailedToGetOrder
        /\ UNCHANGED kafka

\* the event types HandleEvent has no handler for: three the engine publishes
\* itself, order.canceled, and a type the models package does not know
UnhandledTypes ==
    {OrderStatusChangedEvent, OrderCompletedEvent, OrderFailedEvent, OrderCanceledEvent,
     "order.shipped"}

\* the broker delivers an event of a type without handler, whoever published it
DeliverUnhandled ==
    \E p \in Procs, type \in UnhandledTypes, id \in OrderIds :
        /\ HandleEvent(p, NewEvent(NewEventId, type, [order_id |-> id]))
        /\ UNCHANGED kafka

\* a handler goes on with its conditional write, which meets no store error, or
\* with its publication, which the producer accepts
HandlerStep ==
    \E p \in Procs :
        /\ \/ handleOrderCreatedWrite(p) /\ procs'[p].wrote # "error"
           \/ handleOrderCreatedPublish(p) /\ events' # events
           \/ handleOrderProcessingWrite(p) /\ procs'[p].wrote # "error"
           \/ handleOrderProcessingPublish(p) /\ events' # events
        /\ UNCHANGED kafka

\* the ticker fires while the topic has room for the tick's events and for the
\* events that follow order.created in the lifecycle of each unresolved order;
\* its query succeeds
Tick ==
    /\ Room(Cardinality({id \in DOMAIN orders : orders[id].status = OrderStatusPending})
              + (LifecycleLength - 1) * Cardinality(Unresolved))
    /\ ProcessPendingOrders
    /\ sweeper'.err = "nil"
    /\ UNCHANGED kafka

\* the tick goes on: a republication the producer accepts, or the return
TickStep ==
    /\ \/ ProcessPendingOrdersPublish /\ events' # events
       \/ ProcessPendingOrdersReturn
    /\ UNCHANGED kafka

\* a running CreateOrder makes its PublishEvent call, which may fail
CreatePublishes == \E p \in Procs : CreateOrderPublish(p) /\ UNCHANGED kafka

\* a finished call returns
Returns == \E p \in Procs : Return(p) /\ UNCHANGED kafka

NextLive ==
    \/ \E p \in Procs, req \in Requests :
          Admitted(nextId + 1) /\ CreateOrder(p, req) /\ UNCHANGED kafka
    \/ CreatePublishes
    \/ Returns
    \/ \E i \in 1..MaxEvents : Deliver(i)
    \/ DeliverUnhandled
    \/ HandlerStep
    \/ Tick
    \/ TickStep

\* every accepted event is delivered again and again, every running call and
\* tick takes its next step, and the ticker keeps firing
Fairness ==
    /\ \A i \in 1..MaxEvents : SF_vars(Deliver(i))
    /\ SF_vars(HandlerStep)
    /\ SF_vars(CreatePublishes)
    /\ SF_vars(Returns)
    /\ SF_vars(Tick)
    /\ SF_vars(TickStep)

SpecLive == InitLive /\ [][NextLive]_vars /\ Fairness

\* requests racing with the processing of an order: the runs start when
\* handleOrderCreated has moved each order to processing and its
\* order.processing event is the one event left to deliver
InitRace ==
    /\ orders = [id \in OrderIds |-> CreatedOrder(id, OrderStatusProcessing)]
    /\ commits = [id \in OrderIds |-> <<RetriedCommits[1]>>]
    /\ events = [id \in OrderIds |->
                    NewOrderProcessingEvent(id, CreatedOrder(id, OrderStatusPending))]
    /\ nextId = MaxOrders
    /\ now = MaxTime
    /\ procs = [p \in Procs |-> IdleProc]
    /\ sweeper = IdleSweeper
    /\ topic = [k \in Partitions |-> <<>>]
    /\ group = [k \in Partitions |-> NoClaim]
    /\ consumer = NewKafkaConsumer

NextRace ==
    \/ \E p \in Procs, id \in OrderIds, newStatus \in RequestStatuses : UpdateOrderStatus(p, id, newStatus) /\ UNCHANGED kafka
    \/ \E p \in Procs, id \in OrderIds : CancelOrder(p, id) /\ UNCHANGED kafka
    \/ \E p \in Procs : UpdateOrderStatusWrite(p) /\ UNCHANGED kafka
    \/ \E p \in Procs : UpdateOrderStatusPublish(p) /\ UNCHANGED kafka
    \/ \E p \in Procs, i \in 1..Len(events) :
          BelowMaxVersion(events[i].data.order_id) /\ HandleEvent(p, events[i]) /\ UNCHANGED kafka
    \/ \E p \in Procs : handleOrderProcessingWrite(p) /\ UNCHANGED kafka
    \/ \E p \in Procs : handleOrderProcessingPublish(p) /\ UNCHANGED kafka
    \/ \E p \in Procs : Return(p) /\ UNCHANGED kafka

SpecRace == InitRace /\ [][NextRace]_vars

\* the lifecycle engine, over the log of accepted events; the Kafka adapter is at rest
Next ==
    \/ \E p \in Procs, req \in Requests : CreateOrder(p, req) /\ UNCHANGED kafka
    \/ \E p \in Procs : CreateOrderPublish(p) /\ UNCHANGED kafka
    \/ \E p \in Procs, id \in OrderIds, newStatus \in RequestStatuses : UpdateOrderStatus(p, id, newStatus) /\ UNCHANGED kafka
    \/ \E p \in Procs, id \in OrderIds : CancelOrder(p, id) /\ UNCHANGED kafka
    \/ \E p \in Procs : UpdateOrderStatusWrite(p) /\ UNCHANGED kafka
    \/ \E p \in Procs : UpdateOrderStatusPublish(p) /\ UNCHANGED kafka
    \/ \E p \in Procs, i \in 1..Len(events) :
          BelowMaxVersion(events[i].data.order_id) /\ HandleEvent(p, events[i]) /\ UNCHANGED kafka
    \/ \E p \in Procs : handleOrderCreatedWrite(p) /\ UNCHANGED kafka
    \/ \E p \in Procs : handleOrderCreatedPublish(p) /\ UNCHANGED kafka
    \/ \E p \in Procs : handleOrderProcessingWrite(p) /\ UNCHANGED kafka
    \/ \E p \in Procs : handleOrderProcessingPublish(p) /\ UNCHANGED kafka
    \/ SweepRoom /\ ProcessPendingOrders /\ UNCHANGED kafka
    \/ ProcessPendingOrdersPublish /\ UNCHANGED kafka
    \/ ProcessPendingOrdersReturn /\ UNCHANGED kafka
    \/ \E p \in Procs : Return(p) /\ UNCHANGED kafka

Spec == Init /\ [][Next]_vars

\* the lifecycle engine with a producer that accepts every event: a step that
\* calls PublishEvent puts the event on the topic
PublishAttempt ==
    \/ \E p \in Procs : procs'[p].pc # "idle" /\ Len(procs'[p].pubs) > Len(procs[p].pubs)
    \/ Len(sweeper'.pubs) > Len(sweeper.pubs)

NextReliable == Next /\ (PublishAttempt => events' # events)

SpecReliable == Init /\ [][NextReliable]_vars

\* ------------------------------------------------------------------ claims
\* the transition table of the specification, written out as pairs
TransitionEdges ==
    { <<"pending", "processing">>, <<"pending", "canceled">>,
      <<"processing", "completed">>, <<"processing", "failed">>, <<"processing", "canceled">>,
      <<"failed", "pending">> }

\* the calls whose record is visible in the state
Calls == {procs[p] : p \in Procs}
Returned == {c \in Calls : c.pc = "done"}
Handlers(type) == {c \in Calls : c.op = "HandleEvent" /\ c.event.type = type}

\* the status the store holds for an order according to its committed mutations
StatusByCommits(id) ==
    IF commits[id] = <<>> THEN OrderStatusPending ELSE commits[id][Len(commits[id])].to

\* C1: every committed change of an order's stored status is an edge of the
\* transition table, whatever the interleaving of requests, deliveries and ticks;
\* the stored status is always the one the last committed mutation wrote.
C1_CommittedChangesFollowTable ==
    \A id \in DOMAIN orders :
        /\ \A k \in 1..Len(commits[id]) :
              /\ <<commits[id][k].from, commits[id][k].to>> \in TransitionEdges
              /\ commits[id][k].from = IF k = 1 THEN OrderStatusPending ELSE commits[id][k - 1].to
        /\ orders[id].status = StatusByCommits(id)

\* C1 witness: an order went pending -> processing -> failed -> pending, the last
\* edge by a request and the first by the event processor
C1_Witness ==
    \E id \in DOMAIN orders :
        /\ Len(commits[id]) = 3
        /\ commits[id][1].op = "handleOrderCreated"
        /\ commits[id][2].to = OrderStatusFailed
        /\ commits[id][3].to = OrderStatusPending
        /\ orders[id].status = OrderStatusPending

\* C2: the stored version of an order is 1 + the number of status mutations
\* committed on it; the k-th mutation wrote version k + 1.
C2_VersionCountsMutations ==
    \A id \in DOMAIN orders :
        /\ orders[id].version = 1 + Len(commits[id])
        /\ \A k \in 1..Len(commits[id]) : commits[id][k].version = k + 1

\* C2 witness: an order at version 3 after one mutation by the event processor and
\* one by the command service
C2_Witness ==
    \E id \in DOMAIN orders :
        /\ orders[id].version = 3
        /\ commits[id][1].op = "handleOrderCreated"
        /\ commits[id][2].op \in ServiceCalls

\* the conditional write of call p is carried out in this step
WriteStep(p) == procs[p].pc = "write" /\ procs'[p].pc # "write"

\* C3: a conditional write presenting a version other than the stored one is
\* rejected with an error and leaves the order table (status, version, updated_at
\* of every row) as it was.
C3_StaleWriteRejected ==
    [][\A p \in Procs :
          (WriteStep(p) /\ procs[p].order.version # orders[procs[p].id].version)
              => /\ procs'[p].pc = "done"
                 /\ procs'[p].wrote \in {"conflict", "error"}
                 /\ procs'[p].err \notin {"", "nil"}
                 /\ orders' = orders
                 /\ commits' = commits]_vars

\* C3 witness: a call has returned the version conflict of its write
C3_Witness ==
    \E c \in Returned :
        /\ c.wrote = "conflict"
        /\ orders[c.id].version > c.order.version
        /\ orders[c.id].updated_at # now

\* C4: of the UpdateOrderStatus calls that loaded an order at the same version only
\* one commits, and it returns nil; a call that loses returns the error of the
\* conditional write, has published nothing, and the version it presented has been
\* consumed by exactly one committed mutation (the version rose by 1 at that point).
C4_OneWinnerPerVersion ==
    /\ \A c \in Calls :
          (c.op \in ServiceCalls /\ c.wrote = "conflict")
              => /\ c.pc = "done" /\ c.err = "failed to update order status"
                 /\ c.pubs = <<>>
                 /\ Cardinality({k \in 1..Len(commits[c.id]) :
                                    commits[c.id][k].version = c.order.version + 1}) = 1
    /\ \A c \in Calls :
          (c.op \in ServiceCalls /\ c.wrote = "ok")
              => /\ c.pc = "done" => c.err = "nil"
                 /\ commits[c.id][c.order.version].op = c.op
                 /\ commits[c.id][c.order.version].to = c.newStatus
    /\ \A p, q \in Procs :
          (/\ p # q
           /\ procs[p].op \in ServiceCalls /\ procs[q].op \in ServiceCalls
           /\ procs[p].id = procs[q].id
           /\ procs[p].order.version = procs[q].order.version)
              => ~(procs[p].wrote = "ok" /\ procs[q].wrote = "ok")

\* C4 witness: two UpdateOrderStatus calls loaded the same version; one has
\* committed, the other has returned the conflict; the version rose by 1
C4_Witness ==
    \E p, q \in Procs :
        /\ procs[p].op = "UpdateOrderStatus" /\ procs[q].op = "UpdateOrderStatus"
        /\ procs[p].id = procs[q].id
        /\ procs[p].order.version = procs[q].order.version
        /\ procs[p].wrote = "ok"
        /\ procs[q].wrote = "conflict" /\ procs[q].pc = "done"
        /\ orders[procs[p].id].version = procs[p].order.version + 1

\* UpdateOrderStatus / CancelOrder is called by p in this step and has loaded the order
LoadStep(p) ==
    /\ procs[p].pc = "idle" /\ procs'[p].op \in ServiceCalls
    /\ procs'[p].order # NoOrder

\* C5: UpdateOrderStatus on an order whose status is s, with a target t such that
\* (s, t) is not in the table, returns the invalid-transition error without
\* issuing a store write: order table, commits and topic stay as they were.
C5_InvalidTransitionRejected ==
    [][\A p \in Procs :
          (LoadStep(p) /\ <<procs'[p].order.status, procs'[p].newStatus>> \notin TransitionEdges)
              => /\ procs'[p].pc = "done"
                 /\ procs'[p].err = "invalid status transition"
                 /\ procs'[p].wrote = "none" /\ procs'[p].pubs = <<>>
                 /\ orders' = orders /\ commits' = commits /\ events' = events]_vars

\* C5 witness: a request to reopen a completed order has been refused
C5_Witness ==
    \E c \in Returned :
        /\ c.op = "UpdateOrderStatus" /\ c.err = "invalid status transition"
        /\ c.order.status = OrderStatusCompleted /\ c.newStatus = OrderStatusPending
        /\ orders[c.id].status = OrderStatusCompleted

\* C6: IsValidStatusTransition is true exactly for the six pairs of the table, over
\* the five statuses and unknown ones, and the service takes a call on to its
\* write exactly when the pair is one of the six.
C6_TransitionTable ==
    /\ \A s, t \in RequestStatuses \cup {""} :
          IsValidStatusTransition(s, t) <=> <<s, t>> \in TransitionEdges
    /\ \A c \in Calls :
          (c.op \in ServiceCalls /\ c.order # NoOrder)
              => (c.err # "invalid status transition"
                    <=> <<c.order.status, c.newStatus>> \in TransitionEdges)

\* C6 witness: the retry edge failed -> pending has been accepted for a call
C6_Witness ==
    \E c \in Calls :
        /\ c.op = "UpdateOrderStatus" /\ c.pc = "write"
        /\ c.order.status = OrderStatusFailed /\ c.newStatus = OrderStatusPending

\* HandleEvent is called by p in this step and has loaded the order
DeliverStep(p, type) ==
    /\ procs[p].pc = "idle" /\ procs'[p].op = "HandleEvent"
    /\ procs'[p].event.type = type
    /\ procs'[p].order # NoOrder

\* C7: an order.created event for an order that is not pending, and an
\* order.processing event for an order that is not processing, is discarded: the
\* handler returns nil, writes nothing and publishes nothing; and every mutation
\* committed by handleOrderCreated starts from pending.
C7_StaleEventDiscarded ==
    [][/\ \A p \in Procs :
            (\/ DeliverStep(p, OrderCreatedEvent) /\ procs'[p].order.status # OrderStatusPending
             \/ DeliverStep(p, OrderProcessingEvent) /\ procs'[p].order.status # OrderStatusProcessing)
                => /\ procs'[p].pc = "done" /\ procs'[p].err = "nil"
                   /\ procs'[p].wrote = "none" /\ procs'[p].pubs = <<>>
                   /\ orders' = orders /\ commits' = commits /\ events' = events
       /\ \A id \in OrderIds : \A k \in 1..Len(commits'[id]) :
            commits'[id][k].op = "handleOrderCreated"
                => commits'[id][k].from = OrderStatusPending]_vars

\* C7 witness: order.created has been replayed against an order that
\* handleOrderCreated had already moved on, and the replay returned nil
C7_Witness ==
    \E c \in Returned \cap Handlers(OrderCreatedEvent) :
        /\ c.err = "nil" /\ c.wrote = "none"
        /\ c.order.status \in {OrderStatusProcessing, OrderStatusCompleted, OrderStatusFailed}
        /\ commits[c.id][1].op = "handleOrderCreated"
        /\ Cardinality({k \in 1..Len(commits[c.id]) : commits[c.id][k].op = "handleOrderCreated"}) = 1

\* C8: a CreateOrder that got past the store returns an order that is pending at
\* version 1 with the caller's customer id and as many items as requested; the
\* row is stored under its id (pending at version 1 until a mutation commits);
\* it hands exactly one order.created event to the producer, whose payload
\* carries the order's id, customer id, items and total_amount.
C8_CreateOrder ==
    \A c \in Calls :
        (c.op = "CreateOrder" /\ c.wrote = "ok")
            => /\ c.order.id = c.id /\ c.id \in DOMAIN orders
               /\ c.order.status = OrderStatusPending /\ c.order.version = 1
               /\ c.order.customer_id = c.req.customer_id
               /\ Len(c.order.items) = Len(c.req.items)
               /\ orders[c.id].customer_id = c.req.customer_id
               /\ Len(orders[c.id].items) = Len(c.req.items)
               /\ commits[c.id] = <<>> =>
                    orders[c.id].status = OrderStatusPending /\ orders[c.id].version = 1
               /\ c.pc = "publish" => c.pubs = <<>>
               /\ c.pc = "done" =>
                    /\ c.err = "nil" /\ c.ret = c.order
                    /\ Len(c.pubs) = 1
                    /\ c.pubs[1].type = OrderCreatedEvent
                    /\ c.pubs[1].data.order_id = c.id
                    /\ c.pubs[1].data.customer_id = c.req.customer_id
                    /\ c.pubs[1].data.items = c.order.items
                    /\ c.pubs[1].data.total_amount = c.order.total_amount
                    /\ Cardinality({i \in 1..Len(events) : events[i] = c.pubs[1]}) <= 1

\* C8 witness: CreateOrder for customer c2 with two items has returned and its one
\* order.created event is on the topic
C8_Witness ==
    \E c \in Returned :
        /\ c.op = "CreateOrder" /\ c.err = "nil"
        /\ c.req.customer_id = "c2" /\ Len(c.ret.items) = 2
        /\ orders[c.id].status = OrderStatusPending /\ orders[c.id].version = 1
        /\ events = c.pubs

\* C9: handleOrderCreated for an order it loaded pending at version v writes
\* processing with expected version v; when the write commits (no other writer got
\* in first, store available) the mutation is pending -> processing at version
\* v + 1 and exactly one order.processing event for the order is handed to the
\* producer; the write fails only on a store error or when another mutation has
\* taken version v + 1.
C9_CreatedMovesToProcessing ==
    \A c \in Handlers(OrderCreatedEvent) :
        (c.order # NoOrder /\ c.order.status = OrderStatusPending) =>
            /\ c.wrote = "ok" =>
                 /\ commits[c.id][c.order.version] =
                        [op |-> "handleOrderCreated", from |-> OrderStatusPending,
                         to |-> OrderStatusProcessing, version |-> c.order.version + 1]
                 /\ c.pc = "done" =>
                      /\ c.err = "nil"
                      /\ Len(c.pubs) = 1
                      /\ c.pubs[1].type = OrderProcessingEvent
                      /\ c.pubs[1].data.order_id = c.id
            /\ c.wrote = "conflict" =>
                 /\ Len(commits[c.id]) >= c.order.version
                 /\ c.pubs = <<>>
            /\ c.pc = "done" => c.wrote \in {"ok", "conflict", "error"}

\* C9 witness: the first order.created of a fresh order has been handled: the
\* order is processing at version 2 and order.processing is on the topic
C9_Witness ==
    \E c \in Returned \cap Handlers(OrderCreatedEvent) :
        /\ c.wrote = "ok" /\ c.order.version = 1
        /\ orders[c.id].status = OrderStatusProcessing /\ orders[c.id].version = 2
        /\ events[Len(events)] = c.pubs[1]

\* C10: handleOrderProcessing for an order it loaded in processing at version v
\* resolves it: when its write commits, the mutation is processing -> completed or
\* processing -> failed at version v + 1, never processing, and exactly one event is
\* handed to the producer, order.completed for completed and order.failed for
\* failed; the write fails only on a store error or when another mutation has taken
\* version v + 1.
C10_ProcessingResolves ==
    \A c \in Handlers(OrderProcessingEvent) :
        (c.order # NoOrder /\ c.order.status = OrderStatusProcessing) =>
            /\ c.wrote = "ok" =>
                 LET m == commits[c.id][c.order.version] IN
                 /\ m.op = "handleOrderProcessing" /\ m.from = OrderStatusProcessing
                 /\ m.to \in {OrderStatusCompleted, OrderStatusFailed}
                 /\ m.version = c.order.version + 1
                 /\ c.pc = "done" =>
                      /\ c.err = "nil"
                      /\ Len(c.pubs) = 1
                      /\ c.pubs[1].data.order_id = c.id
                      /\ c.pubs[1].type = IF m.to = OrderStatusCompleted
                                          THEN OrderCompletedEvent ELSE OrderFailedEvent
            /\ c.wrote = "conflict" =>
                 /\ Len(commits[c.id]) >= c.order.version
                 /\ c.pubs = <<>>
            /\ c.pc = "done" => c.wrote \in {"ok", "conflict", "error"}

\* C10 witness: order.processing has been handled for an order at version 2 and the
\* simulated work failed: the order is failed at version 3, order.failed is on the topic
C10_Witness ==
    \E c \in Returned \cap Handlers(OrderProcessingEvent) :
        /\ c.wrote = "ok" /\ c.order.version = 2
        /\ orders[c.id].status = OrderStatusFailed /\ orders[c.id].version = 3
        /\ events[Len(events)] = c.pubs[1]
        /\ c.pubs[1].type = OrderFailedEvent

\* the errors a handler returns when its conditional write does not go through
HandlerWriteErrors ==
    { "failed to update order status to processing",
      "failed to update order status to completed",
      "failed to update order status to failed" }

\* C11 as stated: a handler whose conditional write lost the race returns success
\* for the message and publishes nothing.
C11_ConflictAbsorbed ==
    \A c \in Calls :
        (c.op = "HandleEvent" /\ c.wrote = "conflict")
            => c.pc = "done" /\ c.err = "nil" /\ c.pubs = <<>>

\* C11 amended: a handler whose conditional write lost the race (the stored version
\* is no longer the one it loaded) returns the error of its write for that
\* message; the invocation has written nothing and published nothing, and the
\* version it presented was taken by exactly one mutation of another writer.
C11_ConflictReturned ==
    \A c \in Calls :
        (c.op = "HandleEvent" /\ c.wrote = "conflict")
            => /\ c.pc = "done"
               /\ c.err \in HandlerWriteErrors
               /\ c.err = "failed to update order status to processing"
                     <=> c.event.type = OrderCreatedEvent
               /\ c.pubs = <<>>
               /\ orders[c.id].version > c.order.version
               /\ Cardinality({k \in 1..Len(commits[c.id]) :
                                  commits[c.id][k].version = c.order.version + 1}) = 1

\* C11 witness: handleOrderCreated loaded a pending order, a cancel got in first,
\* and the handler has returned the error of its write
C11_Witness ==
    \E c \in Returned \cap Handlers(OrderCreatedEvent) :
        /\ c.wrote = "conflict"
        /\ c.err = "failed to update order status to processing"
        /\ c.order.status = OrderStatusPending
        /\ orders[c.id].status = OrderStatusCanceled
        /\ commits[c.id][c.order.version].op = "CancelOrder"

\* call p makes its PublishEvent call in this step and the producer returns an error
PublishFails(p) ==
    /\ procs[p].pc = "publish" /\ procs'[p].pc = "done"
    /\ events' = events

\* C12: when the store write of an operation has committed and PublishEvent returns
\* an error, the operation still returns success (CreateOrder returns the created
\* order and a nil error; UpdateOrderStatus, CancelOrder and the handlers return
\* nil) and the order table is left as the write committed it.
C12_PublishFailureNotEscalated ==
    [][\A p \in Procs :
          PublishFails(p)
              => /\ procs[p].wrote = "ok"
                 /\ procs'[p].err = "nil"
                 /\ procs'[p].op = "CreateOrder"
                       => /\ procs'[p].ret = procs[p].order
                          /\ procs'[p].ret.id \in DOMAIN orders'
                 /\ Len(procs'[p].pubs) = 1
                 /\ orders' = orders /\ commits' = commits]_vars

\* C12 witness: a CreateOrder has returned its order although its order.created
\* event did not reach the topic; the row is stored
C12_Witness ==
    \E c \in Returned :
        /\ c.op = "CreateOrder" /\ c.err = "nil" /\ c.ret.id = c.id
        /\ Len(c.pubs) = 1
        /\ \A i \in 1..Len(events) : events[i] # c.pubs[1]
        /\ c.id \in DOMAIN orders /\ orders[c.id].version = 1

\* the committed mutation an event of the topic reports, if it reports one
ReportsCommit(event, m) ==
    CASE event.type = OrderStatusChangedEvent ->
            /\ m.op \in ServiceCalls
            /\ m.from = event.data.old_status /\ m.to = event.data.new_status
      [] event.type = OrderProcessingEvent ->
            m.op = "handleOrderCreated" /\ m.to = OrderStatusProcessing
      [] event.type = OrderCompletedEvent ->
            m.op = "handleOrderProcessing" /\ m.to = OrderStatusCompleted
      [] event.type = OrderFailedEvent ->
            m.op = "handleOrderProcessing" /\ m.to = OrderStatusFailed
      [] OTHER -> FALSE

\* C13: an operation hands its event to the producer only after its store write
\* has committed: a call has published only if its write went through, a call
\* whose write failed (store error or version conflict) has returned an error and
\* published nothing, a CreateOrder whose Create failed returns no order and
\* stores none, and every event on the topic reports a row or a mutation that
\* is already committed.
C13_PublishAfterCommit ==
    /\ \A c \in Calls :
          /\ c.pubs # <<>> => c.wrote = "ok" /\ c.pc = "done"
          /\ c.wrote \in {"error", "conflict"}
                => c.pc = "done" /\ c.pubs = <<>> /\ c.err \notin {"", "nil"}
          /\ (c.op = "CreateOrder" /\ c.wrote = "error")
                => c.ret = NoOrder /\ c.id \notin DOMAIN orders
          /\ c.pc = "publish" => c.wrote = "ok"
    /\ \A i \in 1..Len(events) :
          LET id == events[i].data.order_id IN
          /\ id \in DOMAIN orders
          /\ events[i].type # OrderCreatedEvent
                => \E k \in 1..Len(commits[id]) : ReportsCommit(events[i], commits[id][k])

\* C13 witness: an UpdateOrderStatus whose conditional write failed on a store
\* error has returned that error; nothing was published for it and the row is
\* as it was loaded
C13_Witness ==
    \E c \in Returned :
        /\ c.op = "UpdateOrderStatus" /\ c.wrote = "error"
        /\ c.err = "failed to update order status" /\ c.pubs = <<>>
        /\ orders[c.id] = c.order
        /\ \A i \in 1..Len(events) : events[i].type # OrderStatusChangedEvent

\* a request the specification calls malformed: no items, or an item with
\* quantity <= 0 or price < 0
InvalidRequest(req) ==
    \/ req.items = <<>>
    \/ \E i \in 1..Len(req.items) : req.items[i].quantity <= 0 \/ req.items[i].price < 0

\* C14: CreateOrder rejects a request without items or with an item of
\* quantity <= 0 or price < 0: it returns an error and no order, stores no row
\* and publishes no event.
C14_InvalidRequestRejected ==
    \A c \in Calls :
        (c.op = "CreateOrder" /\ InvalidRequest(c.req))
            => /\ c.pc = "done"
               /\ c.err \notin {"", "nil"}
               /\ c.ret = NoOrder
               /\ c.id \notin DOMAIN orders
               /\ c.pubs = <<>>

\* C15: CreateOrder stores the order row and all of its item rows or none of them:
\* a call that got past Create finds the row stored with one item row per
\* requested item (total = price * quantity), and a call whose Create failed, at
\* whichever insert or at the commit, leaves no row behind and returns an error.
C15_CreateAtomic ==
    \A c \in Calls :
        c.op = "CreateOrder" =>
            IF c.wrote = "ok"
            THEN /\ c.id \in DOMAIN orders
                 /\ orders[c.id].items = StoredItems(c.order.items)
                 /\ Len(orders[c.id].items) = Len(c.req.items)
                 /\ \A i \in 1..Len(c.req.items) :
                       /\ orders[c.id].items[i].product_id = c.req.items[i].product_id
                       /\ orders[c.id].items[i].total
                             = c.req.items[i].price * c.req.items[i].quantity
            ELSE /\ c.pc = "done" /\ c.wrote = "error"
                 /\ c.err = "failed to create order" /\ c.ret = NoOrder
                 /\ c.id \notin DOMAIN orders

\* C15 witness: a CreateOrder whose second item the store refused (quantity 0)
\* has returned its error; the order row and the first item row written before
\* it are not in the table
C15_Witness ==
    \E c \in Returned :
        /\ c.op = "CreateOrder" /\ c.wrote = "error"
        /\ Len(c.req.items) = 2 /\ c.req.items[2].quantity = 0
        /\ c.id \notin DOMAIN orders

\* what a call that asks for canceled does with the order it loaded
CancelBehaviour(c) ==
    /\ c.order.status \in {OrderStatusCompleted, OrderStatusCanceled, OrderStatusFailed}
          => /\ c.pc = "done" /\ c.err = "invalid status transition"
             /\ c.wrote = "none" /\ c.pubs = <<>>
             /\ orders[c.id] = c.order
    /\ c.order.status \in {OrderStatusPending, OrderStatusProcessing}
          => /\ c.err # "invalid status transition"
             /\ c.wrote = "ok"
                   => /\ commits[c.id][c.order.version] =
                            [op |-> c.op, from |-> c.order.status,
                             to |-> OrderStatusCanceled, version |-> c.order.version + 1]
                      /\ c.pc = "done"
                            => /\ c.err = "nil"
                               /\ Len(c.pubs) = 1
                               /\ c.pubs[1].type = OrderStatusChangedEvent
                               /\ c.pubs[1].data.old_status = c.order.status
                               /\ c.pubs[1].data.new_status = OrderStatusCanceled
                               /\ c.pubs[1].data.reason = c.reason
             /\ c.wrote = "conflict"
                   => c.pc = "done" /\ orders[c.id].version > c.order.version
             /\ c.pc = "done" => c.wrote \in {"ok", "conflict", "error"}

\* C16: CancelOrder(id, reason) is UpdateOrderStatus(id, canceled, reason): every
\* CancelOrder call asks for canceled, and a CancelOrder call and an
\* UpdateOrderStatus call for canceled do the same with the order they loaded: on
\* pending or processing the write commits canceled at version + 1 (unless
\* another writer took the version or the store failed) and the call returns
\* nil; on completed, canceled or failed the call returns the invalid-transition
\* error and the order is as it was.
C16_CancelIsUpdateToCanceled ==
    \A c \in Calls :
        /\ c.op = "CancelOrder" => c.newStatus = OrderStatusCanceled
        /\ (c.op \in ServiceCalls /\ c.newStatus = OrderStatusCanceled /\ c.order # NoOrder)
              => CancelBehaviour(c)
        /\ (c.op = "CancelOrder" /\ c.order # NoOrder) => CancelBehaviour(c)

\* C16 witness: CancelOrder on an order in processing has returned nil; the order
\* is canceled one version above the one loaded
C16_Witness ==
    \E c \in Returned :
        /\ c.op = "CancelOrder" /\ c.err = "nil"
        /\ c.order.status = OrderStatusProcessing
        /\ orders[c.id].status = OrderStatusCanceled
        /\ orders[c.id].version = c.order.version + 1

\* the messages of the topic, each with its partition and offset
Messages ==
    UNION {{[partition |-> k, offset |-> o, key |-> topic[k][o].key, value |-> topic[k][o].value] :
                o \in 1..Len(topic[k])} : k \in Partitions}

C18_FailedMessageNotSkipped ==
    \A k \in Partitions : \A o \in 1..Len(topic[k]) :
        o < group[k].committed
            => (o <= Len(group[k].results) /\ group[k].results[o] = "ok")

\* the orders that are pending, and the order.created events of the tick for an order
PendingIds == {id \in DOMAIN orders : orders[id].status = OrderStatusPending}
Republished(id) ==
    {i \in 1..Len(sweeper.pubs) :
        sweeper.pubs[i].type = OrderCreatedEvent /\ sweeper.pubs[i].data.order_id = id}

\* the tick has run to its end without a store error
TickDone == sweeper.pc = "done" /\ sweeper.err = "nil"

QueryStep == sweeper.pc = "idle" /\ sweeper'.pc # "idle" /\ sweeper'.err = "nil"

\* the tick hands an event to the producer in this step
RepublishStep == sweeper.pc = "publish" /\ Len(sweeper'.pubs) = Len(sweeper.pubs) + 1

\* C20 as stated: at the moment the sweeper publishes order.created for an
\* order, the stored status of that order is pending.
C20_PendingWhenRepublished ==
    [][RepublishStep => orders[sweeper.pending[sweeper.i].id].status = OrderStatusPending]_vars

\* C20 amended: the sweeper publishes order.created only for the orders its
\* query listed, and the query lists only rows that are pending when it runs (an
\* order that has left pending before the query is not republished by the
\* tick); the event is built from the listed row, whatever has happened to the
\* order between the query and the publish.
C20_PendingWhenListed ==
    [][/\ QueryStep =>
            \A i \in 1..Len(sweeper'.pending) :
                /\ sweeper'.pending[i].id \in DOMAIN orders
                /\ sweeper'.pending[i] = orders[sweeper'.pending[i].id]
                /\ sweeper'.pending[i].status = OrderStatusPending
       /\ RepublishStep =>
            LET row   == sweeper.pending[sweeper.i]
                event == sweeper'.pubs[Len(sweeper'.pubs)]
            IN /\ row.status = OrderStatusPending
               /\ event.type = OrderCreatedEvent
               /\ event.data.order_id = row.id
               /\ event.data.total_amount = row.total_amount
               /\ sweeper'.pending = sweeper.pending
               /\ orders' = orders]_vars

\* C20 witness: a tick has republished order.created for an order that was
\* canceled between the tick's query and its publish
C20_Witness ==
    /\ TickDone
    /\ Len(sweeper.pubs) = 1
    /\ sweeper.pending[1].status = OrderStatusPending
    /\ orders[sweeper.pubs[1].data.order_id].status = OrderStatusCanceled
    /\ events # <<>> /\ events[Len(events)] = sweeper.pubs[1]

\* the ids of the rows a tick has listed
Listed(list) == {list[i].id : i \in 1..Len(list)}

SweepStep == sweeper' # sweeper

\* C22: a sweep tick never writes to the store: every step of
\* ProcessPendingOrders leaves the order table (status, version and updated_at
\* of every order) and the committed mutations as they were; a tick whose
\* query finds no pending order publishes nothing and returns nil, and a tick
\* whose query fails publishes nothing.
C22_SweepWritesNothing ==
    [][SweepStep =>
          /\ orders' = orders /\ commits' = commits
          /\ (QueryStep /\ PendingIds = {})
                => /\ sweeper'.pc = "done" /\ sweeper'.err = "nil"
                   /\ sweeper'.pending = <<>> /\ sweeper'.pubs = <<>>
                   /\ events' = events
          /\ (sweeper.pc = "idle" /\ sweeper'.err # "nil")
                => sweeper'.pc = "done" /\ sweeper'.pubs = <<>> /\ events' = events
          /\ sweeper.pc = "done" => events' = events]_vars

\* C22 witness: a tick over a table whose only order has left pending has
\* returned nil without publishing
C22_Witness ==
    /\ TickDone
    /\ sweeper.pending = <<>> /\ sweeper.pubs = <<>>
    /\ \E id \in DOMAIN orders : orders[id].status = OrderStatusCompleted

\* the accepted order.created events of an order
CreatedOnTopic(id) ==
    {i \in 1..Len(events) : events[i].type = OrderCreatedEvent /\ events[i].data.order_id = id}

\* the order is committed as pending and its creation event is lost: no
\* order.created for it is on the topic and no CreateOrder is about to publish one
Lost(id) ==
    /\ id \in DOMAIN orders /\ orders[id].status = OrderStatusPending
    /\ CreatedOnTopic(id) = {}
    /\ \A p \in Procs : ~(procs[p].op = "CreateOrder" /\ procs[p].id = id /\ procs[p].pc = "publish")

\* C23: an order that is committed as pending while no order.created event for it
\* is on the topic (the publication of CreateOrder failed, or a retry request
\* returned the order to pending) is recovered: as long as the ticker keeps
\* firing and the later publications, deliveries and store operations succeed,
\* order.created is eventually republished for it and the order eventually
\* leaves pending.
C23_LostCreationRecovered ==
    \A id \in OrderIds :
        /\ Lost(id) ~> (CreatedOnTopic(id) # {})
        /\ Lost(id) ~> (id \in DOMAIN orders /\ orders[id].status # OrderStatusPending)

\* C23 witness: an order that a retry request had returned to pending at version
\* 4 has been republished by the sweeper and moved to processing by
\* handleOrderCreated
C23_Witness ==
    \E id \in DOMAIN orders :
        /\ Len(commits[id]) = 4
        /\ commits[id][3].to = OrderStatusPending
        /\ commits[id][4].op = "handleOrderCreated"
        /\ orders[id].status = OrderStatusProcessing /\ orders[id].version = 5
        /\ CreatedOnTopic(id) # {}

\* the order has reached the end of its processing
Resolved(id) ==
    id \in DOMAIN orders /\ orders[id].status \in {OrderStatusCompleted, OrderStatusFailed}

\* C24: with a broker that delivers every accepted event, publications and store
\* operations of the event processor that succeed and no request that changes
\* or cancels an order, every order stored by CreateOrder eventually reaches
\* completed or failed: it stays neither pending nor processing forever.
C24_CreatedOrderResolves ==
    \A id \in OrderIds :
        (orders = <<>>) => ((id \in DOMAIN orders) ~> Resolved(id))

\* C24 witness: an order stored by CreateOrder has gone through processing to
\* completed by the two handlers, and the three events of its lifecycle are on
\* the topic
C24_Witness ==
    \E id \in DOMAIN orders :
        /\ Len(commits[id]) = 2
        /\ commits[id][1].op = "handleOrderCreated"
        /\ commits[id][2].op = "handleOrderProcessing"
        /\ orders[id].status = OrderStatusCompleted /\ orders[id].version = 3
        /\ Len(events) = 3
        /\ events[1].type = OrderCreatedEvent
        /\ events[2].type = OrderProcessingEvent
        /\ events[3].type = OrderCompletedEvent

\* the accepted order.processing events of an order
ProcessingOnTopic(id) ==
    {i \in 1..Len(events) : events[i].type = OrderProcessingEvent /\ events[i].data.order_id = id}

\* the order is committed as processing and its order.processing event is lost:
\* none is on the topic and no handleOrderCreated is about to publish one
ProcessingLost(id) ==
    /\ id \in DOMAIN orders /\ orders[id].status = OrderStatusProcessing
    /\ ProcessingOnTopic(id) = {}
    /\ \A p \in Procs :
          ~(/\ procs[p].op = "HandleEvent" /\ procs[p].event.type = OrderCreatedEvent
            /\ procs[p].id = id /\ procs[p].pc = "publish")

\* an UpdateOrderStatus or CancelOrder request writes to order id in this step
RequestWrites(id) ==
    \E p \in Procs : procs[p].op \in ServiceCalls /\ procs[p].id = id /\ WriteStep(p)

\* C25: nothing recovers a lost order.processing event: once an order is
\* committed as processing and the publication of its order.processing event
\* has failed, no step of the event processor, of the sweeper or of CreateOrder
\* publishes order.processing for it or changes its status; the order stays in
\* processing until an UpdateOrderStatus or CancelOrder request writes to it.
C25_ProcessingEventNotRecovered ==
    [][\A id \in OrderIds :
          (ProcessingLost(id) /\ ~RequestWrites(id)) => ProcessingLost(id)']_vars

\* C25 witness: an order is in processing without an order.processing event, and
\* a tick of the sweeper has run over it and listed nothing
C25_Witness ==
    \E id \in DOMAIN orders :
        /\ ProcessingLost(id)
        /\ commits[id] # <<>> /\ commits[id][Len(commits[id])].op = "handleOrderCreated"
        /\ TickDone /\ sweeper.pending = <<>>
        /\ CreatedOnTopic(id) # {}

\* handler p of an order.processing event is suspended in its simulated work
Suspended(p) ==
    /\ procs[p].op = "HandleEvent" /\ procs[p].event.type = OrderProcessingEvent
    /\ procs[p].pc = "write"

\* C26: the simulated processing delay holds no lock on the order: while a
\* handler of order.processing is suspended in it, the conditional write of a
\* CancelOrder / UpdateOrderStatus on the same order that presents the stored
\* version commits (short of a store error) and the call goes on to return nil;
\* the write the handler issues afterwards fails the version check, leaves the
\* order as the other writer committed it, and the handler publishes no
\* order.completed or order.failed event.
C26_DelayHoldsNoLock ==
    [][\A p, q \in Procs :
          /\ (/\ Suspended(p) /\ procs[q].op \in ServiceCalls /\ procs[q].id = procs[p].id
              /\ WriteStep(q) /\ procs[q].order.version = orders[procs[q].id].version)
                => /\ procs'[q].wrote \in {"ok", "error"}
                   /\ procs'[q].wrote = "ok"
                         => /\ procs'[q].pc = "publish"
                            /\ orders'[procs[q].id].status = procs[q].newStatus
                            /\ orders'[procs[q].id].version = procs[q].order.version + 1
                   /\ procs'[p] = procs[p]
          /\ (Suspended(p) /\ WriteStep(p) /\ procs[p].order.version # orders[procs[p].id].version)
                => /\ procs'[p].pc = "done"
                   /\ procs'[p].wrote \in {"conflict", "error"}
                   /\ procs'[p].pubs = <<>>
                   /\ orders' = orders /\ commits' = commits /\ events' = events
          /\ (procs[q].op \in ServiceCalls /\ procs[q].pc = "publish" /\ procs'[q].pc = "done")
                => procs'[q].err = "nil"]_vars

\* C26 witness: a handler loaded the order in processing, a CancelOrder committed
\* during its delay, and the handler has returned the conflict of its write: the
\* order is canceled and no order.completed or order.failed is on the topic
C26_Witness ==
    \E c \in Returned \cap Handlers(OrderProcessingEvent) :
        /\ c.wrote = "conflict" /\ c.pubs = <<>>
        /\ c.order.status = OrderStatusProcessing
        /\ commits[c.id][c.order.version].op = "CancelOrder"
        /\ orders[c.id].status = OrderStatusCanceled
        /\ orders[c.id].version = c.order.version + 1
        /\ \A i \in 1..Len(events) : events[i].type \notin {OrderCompletedEvent, OrderFailedEvent}

\* a step of call p that is not its start and not its return
InsideCall(p) == procs[p].pc \notin {"idle", "done"} /\ procs'[p] # procs[p]

\* C27: neither the command service nor the event processor retries a conditional
\* write: an UpdateOrderStatus / CancelOrder call and a HandleEvent invocation
\* keep the order they loaded first, issue at most one conditional write, and
\* after a write that did not commit do nothing but return its error.
C27_NoRetry ==
    [][\A p \in Procs :
          (InsideCall(p) /\ procs[p].op \in ServiceCalls \cup {"HandleEvent"})
              => /\ procs'[p].order = procs[p].order
                 /\ procs[p].pc = "write"
                       => /\ procs[p].wrote = "none"
                          /\ procs'[p].wrote # "none"
                          /\ procs'[p].pc = IF procs'[p].wrote = "ok" THEN "publish" ELSE "done"
                          /\ procs'[p].wrote # "ok" => (orders' = orders /\ procs'[p].err \notin {"", "nil"})
                 /\ procs[p].pc = "publish"
                       => /\ procs[p].wrote = "ok" /\ procs'[p].wrote = "ok"
                          /\ procs'[p].pc = "done"
                          /\ orders' = orders /\ commits' = commits]_vars

\* C27 witness: a request to cancel lost its write to handleOrderCreated and has
\* returned the conflict, although canceling the order as it is now stored is a
\* valid transition: a second attempt would have gone through
C27_Witness ==
    \E c \in Returned :
        /\ c.op \in ServiceCalls /\ c.wrote = "conflict"
        /\ c.newStatus = OrderStatusCanceled
        /\ orders[c.id].status = OrderStatusProcessing
        /\ IsValidStatusTransition(orders[c.id].status, c.newStatus)

\* the event type that reports a committed mutation
EventFor(m) ==
    CASE m.op \in ServiceCalls -> OrderStatusChangedEvent
      [] m.op = "handleOrderCreated" -> OrderProcessingEvent
      [] m.to = OrderStatusCompleted -> OrderCompletedEvent
      [] OTHER -> OrderFailedEvent

LifecycleTypes ==
    {OrderStatusChangedEvent, OrderProcessingEvent, OrderCompletedEvent, OrderFailedEvent}

\* the committed mutations of an order that an event of this type reports, the
\* accepted events of this type, and the calls that have committed a mutation
\* and not yet made their PublishEvent call
Mutations(id, type) == {k \in 1..Len(commits[id]) : EventFor(commits[id][k]) = type}
Published(id, type) ==
    {i \in 1..Len(events) : events[i].type = type /\ events[i].data.order_id = id}
Owed(id, type) ==
    {p \in Procs : /\ procs[p].pc = "publish" /\ procs[p].id = id
                   /\ procs[p].op # "CreateOrder"
                   /\ EventFor(commits[id][procs[p].order.version]) = type}

\* C28: with a producer that accepts every event, every committed status mutation
\* of an order has exactly one published event of its type (order.status.changed
\* for a mutation of the command service, with the old and new status of the
\* mutation; order.processing, order.completed, order.failed for those of the
\* event processor) as soon as the call that committed it has made its
\* PublishEvent call; when no call is between its commit and its publication
\* the number of these events for the order is its version minus 1.
C28_OneEventPerMutation ==
    \A id \in DOMAIN orders :
        /\ \A type \in LifecycleTypes :
              Cardinality(Mutations(id, type))
                  = Cardinality(Published(id, type)) + Cardinality(Owed(id, type))
        /\ \A i \in Published(id, OrderStatusChangedEvent) :
              Cardinality({k \in 1..Len(commits[id]) : ReportsCommit(events[i], commits[id][k])})
                  = Cardinality({j \in Published(id, OrderStatusChangedEvent) :
                                    /\ events[j].data.old_status = events[i].data.old_status
                                    /\ events[j].data.new_status = events[i].data.new_status})
        /\ (\A type \in LifecycleTypes : Owed(id, type) = {})
              => Cardinality(UNION {Published(id, type) : type \in LifecycleTypes})
                    = orders[id].version - 1

\* C28 witness: nothing is running; an order moved to processing by
\* handleOrderCreated and canceled by a request is at version 3, and
\* order.processing and order.status.changed are its two events on the topic
C28_Witness ==
    \E id \in DOMAIN orders :
        /\ \A p \in Procs : procs[p].pc = "idle"
        /\ orders[id].version = 3 /\ orders[id].status = OrderStatusCanceled
        /\ Cardinality(Published(id, OrderProcessingEvent)) = 1
        /\ Cardinality(Published(id, OrderStatusChangedEvent)) = 1

\* HandleEvent is called by p in this step with an event of a type it has no handler for
UnhandledStep(p) ==
    /\ procs[p].pc = "idle" /\ procs'[p].op = "HandleEvent"
    /\ procs'[p].event.type \notin {OrderCreatedEvent, OrderProcessingEvent}

\* C29: HandleEvent for an event of any type other than order.created and
\* order.processing (order.status.changed, order.completed, order.failed,
\* order.canceled, or a type it does not know) returns nil at once: it does not
\* read the order, writes nothing and publishes nothing; order table, committed
\* mutations and topic are as they were.
C29_OtherEventsIgnored ==
    [][\A p \in Procs :
          UnhandledStep(p)
              => /\ procs'[p].pc = "done" /\ procs'[p].err = "nil"
                 /\ procs'[p].order = NoOrder
                 /\ procs'[p].wrote = "none" /\ procs'[p].pubs = <<>>
                 /\ orders' = orders /\ commits' = commits /\ events' = events]_vars

\* C29 witness: order.canceled has been delivered for an order that is pending;
\* HandleEvent has returned nil and the order is still pending at version 1
C29_Witness ==
    \E c \in Returned :
        /\ c.op = "HandleEvent" /\ c.event.type = OrderCanceledEvent
        /\ c.err = "nil" /\ c.order = NoOrder
        /\ c.id \in DOMAIN orders
        /\ orders[c.id].status = OrderStatusPending /\ orders[c.id].version = 1

\* C30: after its creation only status, version and updated_at of an order
\* change: no step of UpdateOrderStatus, CancelOrder, a handler, the sweeper or
\* another CreateOrder removes the row or changes its id, customer_id, items,
\* total_amount or created_at.
C30_OnlyStatusMutates ==
    [][\A id \in DOMAIN orders :
          /\ id \in DOMAIN orders'
          /\ orders'[id] = [orders[id] EXCEPT !.status = orders'[id].status,
                                               !.version = orders'[id].version,
                                               !.updated_at = orders'[id].updated_at]]_vars

\* C30 witness: an order created with two items at clock reading 0 has been
\* through two status mutations, the last at reading 1, and its row still has
\* its two items, its total and created_at 0
C30_Witness ==
    \E id \in DOMAIN orders :
        /\ orders[id].version = 3
        /\ orders[id].created_at = 0 /\ orders[id].updated_at = 1
        /\ Len(orders[id].items) = 2
        /\ orders[id].total_amount = SumTotals(orders[id].items)
        /\ orders[id].status = OrderStatusCanceled

\* C31: the updated_at of a stored order never decreases and equals created_at
\* when the order is created: every step leaves the updated_at of each stored
\* order where it was or moves it forward, whatever the interleaving of the
\* writers, and a row that appears has updated_at = created_at.
C31_UpdatedAtMonotone ==
    [][\A id \in DOMAIN orders' :
          IF id \in DOMAIN orders
          THEN orders'[id].updated_at >= orders[id].updated_at
          ELSE orders'[id].updated_at = orders'[id].created_at]_vars

\* C31 witness: a writer has just committed a mutation of an order with a stamp
\* older than the latest clock reading (another call read the clock between this
\* writer's time.Now() and its UPDATE), and the stamp is not below created_at
C31_Witness ==
    \E p \in Procs :
        /\ procs[p].pc = "publish" /\ procs[p].wrote = "ok"
        /\ procs[p].op \in {"HandleEvent", "UpdateOrderStatus", "CancelOrder"}
        /\ procs[p].id \in DOMAIN orders
        /\ orders[procs[p].id].version = procs[p].order.version + 1
        /\ orders[procs[p].id].updated_at < now
        /\ orders[procs[p].id].updated_at = orders[procs[p].id].created_at

\* ------------------------------------------------- float64 amounts
\* Price, Total and TotalAmount are float64 in models.Order and DECIMAL(10, 2) in
\* the tables. A float64 is m * 2^e with a significand m of 53 bits; m is kept as
\* a natural number in limbs of 15 bits, least significant first, without leading
\* zero limbs (the integers of the model are too short for it).
Precision == 53
LimbBits  == 15
Base      == 2^LimbBits

RECURSIVE NatLimbs(_)
NatLimbs(n) == IF n = 0 THEN <<>> ELSE <<n % Base>> \o NatLimbs(n \div Base)

RECURSIVE LimbsNat(_)
LimbsNat(x) == IF x = <<>> THEN 0 ELSE x[1] + Base * LimbsNat(Tail(x))

RECURSIVE Trim(_)
Trim(x) == IF x = <<>> \/ x[Len(x)] # 0 THEN x ELSE Trim(SubSeq(x, 1, Len(x) - 1))

Limb(x, j) == IF j >= 1 /\ j <= Len(x) THEN x[j] ELSE 0

\* bit i of x, counted from 1 at the least significant end
Bit(x, i) == (Limb(x, (i - 1) \div LimbBits + 1) \div 2^((i - 1) % LimbBits)) % 2

BitLen(x) ==
    IF x = <<>> THEN 0
    ELSE LimbBits * (Len(x) - 1)
           + (CHOOSE n \in 1..LimbBits : 2^(n - 1) <= x[Len(x)] /\ x[Len(x)] < 2^n)

ShiftLeft(x, k) ==
    LET q == k \div LimbBits
        r == k % LimbBits
    IN Trim([j \in 1..(Len(x) + q + 1) |->
                ((Limb(x, j - q) * 2^r) % Base) + (Limb(x, j - q - 1) \div 2^(LimbBits - r))])

ShiftRight(x, k) ==
    LET q == k \div LimbBits
        r == k % LimbBits
    IN Trim([j \in 1..Len(x) |->
                (Limb(x, j + q) \div 2^r) + (Limb(x, j + q + 1) % 2^r) * 2^(LimbBits - r)])

RECURSIVE AddLimbs(_, _, _)
AddLimbs(x, y, carry) ==
    IF x = <<>> /\ y = <<>> THEN NatLimbs(carry)
    ELSE LET s == Limb(x, 1) + Limb(y, 1) + carry
         IN <<s % Base>> \o AddLimbs(IF x = <<>> THEN x ELSE Tail(x),
                                     IF y = <<>> THEN y ELSE Tail(y), s \div Base)

\* x * q + carry for a small q
RECURSIVE TimesLimbs(_, _, _)
TimesLimbs(x, q, carry) ==
    IF x = <<>> THEN NatLimbs(carry)
    ELSE LET s == x[1] * q + carry
         IN <<s % Base>> \o TimesLimbs(Tail(x), q, s \div Base)

\* quotient and remainder of the division of x by a small d
RECURSIVE DivLimbs(_, _)
DivLimbs(x, d) ==
    IF x = <<>> THEN [q |-> <<>>, r |-> 0]
    ELSE LET hi == DivLimbs(Tail(x), d)
             n  == hi.r * Base + x[1]
         IN [q |-> <<n \div d>> \o hi.q, r |-> n % d]

Zero == [m |-> <<>>, e |-> 0]

\* the float64 nearest to x * 2^e (plus a positive rest below the last bit of x
\* when sticky), ties to even: the rounding of every float64 operation
RoundToFloat(x, e, sticky) ==
    LET len == BitLen(x)
        k   == len - Precision
    IN IF x = <<>> THEN Zero
       ELSE IF k <= 0 THEN [m |-> ShiftLeft(x, 0 - k), e |-> e + k]
       ELSE LET kept == ShiftRight(x, k)
                rest == sticky \/ \E i \in 1..(k - 1) : Bit(x, i) = 1
                up   == Bit(x, k) = 1 /\ (rest \/ Bit(kept, 1) = 1)
                r    == IF up THEN AddLimbs(kept, <<1>>, 0) ELSE kept
            IN IF BitLen(r) > Precision THEN [m |-> ShiftRight(r, 1), e |-> e + k + 1]
                                        ELSE [m |-> r, e |-> e + k]

\* a decimal with two fraction digits (given in hundredths) read as a float64:
\* the JSON decoding of a price, and the Scan of a DECIMAL(10, 2) column
ParseFloat(hundredths) ==
    LET d == DivLimbs(ShiftLeft(NatLimbs(hundredths), 64), 100)
    IN RoundToFloat(Trim(d.q), 0 - 64, d.r # 0)

\* x + y in float64
FloatAdd(x, y) ==
    IF x = Zero THEN y
    ELSE IF y = Zero THEN x
    ELSE LET e == IF x.e < y.e THEN x.e ELSE y.e
         IN RoundToFloat(AddLimbs(ShiftLeft(x.m, x.e - e), ShiftLeft(y.m, y.e - e), 0), e, FALSE)

\* x * float64(q) in float64, for a quantity q
FloatTimes(x, q) == RoundToFloat(TimesLimbs(x.m, q, 0), x.e, FALSE)

\* a float64 written to a DECIMAL(10, 2) column: the nearest hundredth, halves up
\* (the amounts here are never negative)
ToNumeric(x) ==
    LET b == TimesLimbs(x.m, 100, 0)
    IN IF x.e >= 0 THEN LimbsNat(ShiftLeft(b, x.e))
       ELSE LimbsNat(ShiftRight(b, 0 - x.e)) + Bit(b, 0 - x.e)

\* ------------------------------------------------- CreateOrder, amounts as float64
\* The lifecycle actions above keep amounts as exact hundredths. The actions of
\* this section compute them as the code does: prices decoded to float64, the
\* total added up in float64, and every amount rounded to DECIMAL(10, 2) by the
\* INSERT.
MaxItems    == 2
MaxQuantity == 2

\* the prices (in hundredths) of the requests: 0.10, 15.50, 19.99 and 29.99
Prices == {10, 1550, 1999, 2999}

\* CreateOrderRequest values with 1..MaxItems items, item i naming product i
FloatRequests ==
    UNION { { [customer_id |-> "c1",
               items |-> [i \in 1..n |-> [product_id |-> i, quantity |-> f[i][2],
                                          price |-> f[i][1]]]] :
                f \in [1..n -> Prices \X (1..MaxQuantity)] } : n \in 1..MaxItems }

\* Order.CalculateTotalAmount: "total := 0.0" and, item after item,
\* "total += item.Price * float64(item.Quantity)"
RECURSIVE FloatSum(_, _)
FloatSum(items, total) ==
    IF items = <<>> THEN total
    ELSE FloatSum(Tail(items), FloatAdd(total, FloatTimes(items[1].price, items[1].quantity)))

CalculateTotalAmountFloat(order) == [order EXCEPT !.total_amount = FloatSum(order.items, Zero)]

\* the rows the INSERTs of Create write: total_amount, price and the item's
\* "item.Price * float64(item.Quantity)" become DECIMAL(10, 2) values
NumericRow(order) ==
    [order EXCEPT !.total_amount = ToNumeric(@),
                  !.items = [i \in 1..Len(order.items) |->
                      OrderItem(order.items[i].product_id, order.items[i].quantity,
                                ToNumeric(order.items[i].price),
                                ToNumeric(FloatTimes(order.items[i].price,
                                                     order.items[i].quantity)))]]

\* CreateOrder up to and including orderRepo.Create; the transaction of Create
\* commits all its rows or none
CreateOrderFloat(p, req) ==
    /\ Free(p)
    /\ Room(1)
    /\ nextId < MaxOrders
    /\ LET id    == nextId + 1
           order == CalculateTotalAmountFloat(
                        [NoOrder EXCEPT !.id = id, !.customer_id = req.customer_id,
                                        !.status = OrderStatusPending,
                                        !.total_amount = Zero,
                                        !.items = [i \in 1..Len(req.items) |->
                                            OrderItem(req.items[i].product_id, req.items[i].quantity,
                                                      ParseFloat(req.items[i].price), Zero)]])
           call  == [IdleProc EXCEPT !.op = "CreateOrder", !.id = id, !.req = req]
       IN /\ nextId' = id
          /\ \E outcome \in Outcomes, t \in ClockReads :
                IF outcome = "nil"
                THEN /\ orders' = (id :> NumericRow(CreateRow(order, t))) @@ orders
                     /\ now' = t
                     /\ procs' = [procs EXCEPT ![p] =
                            [call EXCEPT !.pc = "publish", !.order = CreateRow(order, t),
                                         !.wrote = "ok"]]
                ELSE /\ Finish(p, [call EXCEPT !.err = "failed to create order", !.wrote = "error"])
                     /\ UNCHANGED <<orders, now>>
    /\ UNCHANGED <<events, sweeper, commits>>

NextTotals ==
    \/ \E p \in Procs, req \in FloatRequests : CreateOrderFloat(p, req) /\ UNCHANGED kafka
    \/ \E p \in Procs : CreateOrderPublish(p) /\ UNCHANGED kafka
    \/ \E p \in Procs : Return(p) /\ UNCHANGED kafka

SpecTotals == Init /\ [][NextTotals]_vars

\* C32: CreateOrder sets total_amount to the sum of price x quantity over the
\* items of the request: for every CreateOrder that has stored its order and
\* returned, the stored total_amount is that sum, and the total_amount of the
\* returned order is the same amount (the float64 the decimal sum denotes, so
\* 75.48 for 29.99 x 2 and 15.50 x 1, and 59.98 for 29.99 x 2).
C32_TotalIsSumOfItems ==
    \A c \in Returned :
        (c.op = "CreateOrder" /\ c.wrote = "ok") =>
            /\ orders[c.id].total_amount = SumTotals(c.req.items)
            /\ c.ret.total_amount = ParseFloat(SumTotals(c.req.items))
            /\ c.ret.total_amount = ParseFloat(orders[c.id].total_amount)

\* C33: every item of the order CreateOrder returns, and every item of the
\* snapshot its order.created event carries, has total = price x quantity, the
\* value stored for that item.
C33_ItemTotals ==
    \A c \in Returned :
        (c.op = "CreateOrder" /\ c.wrote = "ok") =>
            \A i \in 1..Len(c.ret.items) :
                /\ c.ret.items[i].total = c.ret.items[i].price * c.ret.items[i].quantity
                /\ c.ret.items[i].total = orders[c.id].items[i].total
                /\ c.pubs[1].data.items[i].total = orders[c.id].items[i].total

\* ------------------------------------------------- the HTTP API of the producer
\* ProducerHandlers.GetOrder with OrderService.GetOrderByID: the order, or the
\* error of GetByID wrapped as "failed to get order: %w"
GetOrder(p, id) ==
    /\ Free(p)
    /\ LET call == [IdleProc EXCEPT !.op = "GetOrder", !.id = id]
       IN \E outcome \in Outcomes :
            LET err == GetByIDError(orders, id, outcome) IN
            IF err # "nil"
            THEN Finish(p, [call EXCEPT !.err = Errorf("failed to get order", err)])
            ELSE Finish(p, [call EXCEPT !.err = "nil", !.order = GetByID(orders, id),
                                        !.ret = GetByID(orders, id)])
    /\ UNCHANGED <<orders, events, sweeper, commits, nextId, now>>

\* the requests of the routes POST /orders, GET /orders/:id, PUT /orders/:id/status
\* and PUT /orders/:id/cancel
NextHttp ==
    \/ \E p \in Procs, req \in Requests : CreateOrder(p, req) /\ UNCHANGED kafka
    \/ \E p \in Procs : CreateOrderPublish(p) /\ UNCHANGED kafka
    \/ \E p \in Procs, id \in OrderIds : GetOrder(p, id) /\ UNCHANGED kafka
    \/ \E p \in Procs, id \in OrderIds, newStatus \in RequestStatuses :
          UpdateOrderStatus(p, id, newStatus) /\ UNCHANGED kafka
    \/ \E p \in Procs, id \in OrderIds : CancelOrder(p, id) /\ UNCHANGED kafka
    \/ \E p \in Procs : UpdateOrderStatusWrite(p) /\ UNCHANGED kafka
    \/ \E p \in Procs : UpdateOrderStatusPublish(p) /\ UNCHANGED kafka
    \/ \E p \in Procs : Return(p) /\ UNCHANGED kafka

SpecHttp == Init /\ [][NextHttp]_vars

\* C34: a GET order, update-status or cancel request for an order id the store
\* does not hold (GetByID answered "order not found") is answered with HTTP 404,
\* not 400 or 500, and has written and published nothing.
C34_UnknownOrderNotFound ==
    \A c \in Returned :
        (/\ c.op \in {"GetOrder", "UpdateOrderStatus", "CancelOrder"}
         /\ c.err = Errorf("failed to get order", ErrOrderNotFound))
            => /\ c.code = StatusNotFound
               /\ c.id \notin DOMAIN orders
               /\ c.wrote = "none" /\ c.pubs = <<>>

\* C35: completed and canceled are absorbing: no step of a service call, of an
\* event handler (late, duplicate or already in flight) or of the sweeper changes
\* the status or the version of an order whose stored status is completed or
\* canceled.
C35_TerminalAbsorbing ==
    [][\A id \in DOMAIN orders :
          orders[id].status \in {OrderStatusCompleted, OrderStatusCanceled}
             => /\ orders'[id].status = orders[id].status
                /\ orders'[id].version = orders[id].version]_vars

\* C35 witness: a handler of order.created that had loaded the order pending was
\* in flight while the order was canceled; its write found the version taken and
\* the order is still canceled at the version of its cancellation
C35_Witness ==
    \E c \in Returned :
        /\ c.op = "HandleEvent" /\ c.event.type = OrderCreatedEvent
        /\ c.order.status = OrderStatusPending /\ c.wrote = "conflict"
        /\ orders[c.id].status = OrderStatusCanceled
        /\ orders[c.id].version = c.order.version + 1

\* the event types the processor publishes, the committed mutations of the
\* processor that an event of the type follows, and two workers that handle the
\* same event and loaded the order at the same version
ProcessorTypes == {OrderProcessingEvent, OrderCompletedEvent, OrderFailedEvent}
ProcessorCommits(id, type) ==
    {k \in Mutations(id, type) : commits[id][k].op \notin ServiceCalls}
SameDelivery(p, q) ==
    /\ p # q
    /\ procs[p].op = "HandleEvent" /\ procs[q].op = "HandleEvent"
    /\ procs[p].event = procs[q].event
    /\ procs[p].order # NoOrder /\ procs[p].order.version = procs[q].order.version

C37_StatusChangedDescribesCommit ==
    /\ \A c \in Calls :
          (c.op \in ServiceCalls /\ c.pubs # <<>>) =>
              LET e == c.pubs[1]
                  m == commits[c.id][c.order.version]
              IN /\ c.wrote = "ok" /\ Len(c.pubs) = 1
                 /\ e.type = OrderStatusChangedEvent /\ e.data.order_id = c.id
                 /\ Len(commits[c.id]) >= c.order.version
                 /\ m.op = c.op /\ m.version = c.order.version + 1
                 /\ e.data.old_status = m.from /\ e.data.new_status = m.to
                 /\ <<e.data.old_status, e.data.new_status>> \in TransitionEdges
    /\ \A i \in 1..Len(events) :
          events[i].type = OrderStatusChangedEvent =>
              /\ <<events[i].data.old_status, events[i].data.new_status>> \in TransitionEdges
              /\ \E k \in 1..Len(commits[events[i].data.order_id]) :
                    LET m == commits[events[i].data.order_id][k]
                    IN /\ m.op \in ServiceCalls
                       /\ m.from = events[i].data.old_status
                       /\ m.to = events[i].data.new_status

\* C37 witness: a request canceled an order that the processor had moved to
\* processing; its event (old_status processing, new_status canceled) is on the
\* topic and reports the second commit of the order
C37_Witness ==
    \E c \in Returned :
        /\ c.op \in ServiceCalls /\ c.pubs # <<>>
        /\ c.pubs[1].data.old_status = OrderStatusProcessing
        /\ c.pubs[1].data.new_status = OrderStatusCanceled
        /\ \E i \in 1..Len(events) : events[i] = c.pubs[1]
        /\ commits[c.id][1].op = "handleOrderCreated"
        /\ c.order.version = 2

\* the step hands an event to the producer and the producer accepts it
Accepted == Len(events') = Len(events) + 1
PublishedBy(p) == procs[p].pc = "publish" /\ procs'[p].pc = "done"

\* C38: no component publishes order.canceled: no accepted event has that type,
\* a call that committed a cancellation (CancelOrder, or UpdateOrderStatus to
\* canceled) publishes order.status.changed with new_status canceled, and an
\* order.created event is published only by CreateOrder and by the sweeper.
C38_NoCanceledEvent ==
    [][Accepted =>
          LET e == events'[Len(events')] IN
          /\ e.type # OrderCanceledEvent
          /\ \A i \in 1..Len(events) : events[i].type # OrderCanceledEvent
          /\ \A p \in Procs :
                (PublishedBy(p) /\ procs[p].op \in ServiceCalls
                                /\ procs[p].newStatus = OrderStatusCanceled)
                   => /\ e.type = OrderStatusChangedEvent
                      /\ e.data.new_status = OrderStatusCanceled
          /\ e.type = OrderCreatedEvent
                => \/ \E p \in Procs : PublishedBy(p) /\ procs[p].op = "CreateOrder"
                   \/ sweeper.pc = "publish" /\ sweeper' # sweeper]_vars

\* C38 witness: an order was canceled by CancelOrder; the topic holds its
\* order.created event and an order.status.changed event with new_status
\* canceled, and no order.canceled event
C38_Witness ==
    \E i, j \in 1..Len(events) :
        /\ events[i].type = OrderCreatedEvent
        /\ events[j].type = OrderStatusChangedEvent
        /\ events[j].data.new_status = OrderStatusCanceled
        /\ events[j].data.order_id = events[i].data.order_id
        /\ commits[events[j].data.order_id][Len(commits[events[j].data.order_id])].op = "CancelOrder"
        /\ \A k \in 1..Len(events) : events[k].type # OrderCanceledEvent

\* ------------------------------------------------- GetOrderStats
\* Count: "SELECT COUNT(*) FROM orders"
Count(tbl) == Cardinality(DOMAIN tbl)

\* CountByStatus: "SELECT COUNT(*) FROM orders WHERE status = $1"
CountByStatus(tbl, status) == Cardinality({id \in DOMAIN tbl : tbl[id].status = status})

\* the statuses GetOrderStats counts, in the order of its loop
StatsStatuses ==
    <<OrderStatusPending, OrderStatusProcessing, OrderStatusCompleted,
      OrderStatusCanceled, OrderStatusFailed>>

\* GetOrderStats up to and including orderRepo.Count; stats holds the counts
\* gathered so far, "total" first
GetOrderStats(p) ==
    /\ Free(p)
    /\ LET call == [IdleProc EXCEPT !.op = "GetOrderStats"]
       IN \E outcome \in Outcomes :
            IF outcome = "error"
            THEN Finish(p, [call EXCEPT !.err = "failed to get total order count"])
            ELSE procs' = [procs EXCEPT ![p] =
                    [call EXCEPT !.pc = "count", !.stats = <<Count(orders)>>]]
    /\ UNCHANGED <<orders, events, sweeper, commits, nextId, now>>

\* one turn of the loop "for _, status := range statuses": a CountByStatus query
\* of its own; after the last one GetOrderStats returns the map
GetOrderStatsCount(p) ==
    /\ ~Returning /\ procs[p].op = "GetOrderStats" /\ procs[p].pc = "count"
    /\ LET call   == procs[p]
           status == StatsStatuses[Len(call.stats)]
       IN \E outcome \in Outcomes :
            IF outcome = "error"
            THEN Finish(p, [call EXCEPT !.stats = <<>>,
                                        !.err = "failed to get count for status " \o status])
            ELSE LET counted == [call EXCEPT !.stats = Append(@, CountByStatus(orders, status))]
                 IN IF Len(counted.stats) = Len(StatsStatuses) + 1
                    THEN Finish(p, [counted EXCEPT !.err = "nil"])
                    ELSE procs' = [procs EXCEPT ![p] = counted]
    /\ UNCHANGED <<orders, events, sweeper, commits, nextId, now>>

\* statistics requests next to the requests that create orders and cancel them
NextStats ==
    \/ \E p \in Procs, req \in Requests : CreateOrder(p, req) /\ UNCHANGED kafka
    \/ \E p \in Procs : CreateOrderPublish(p) /\ UNCHANGED kafka
    \/ \E p \in Procs, id \in OrderIds : CancelOrder(p, id) /\ UNCHANGED kafka
    \/ \E p \in Procs : UpdateOrderStatusWrite(p) /\ UNCHANGED kafka
    \/ \E p \in Procs : UpdateOrderStatusPublish(p) /\ UNCHANGED kafka
    \/ \E p \in Procs : GetOrderStats(p) /\ UNCHANGED kafka
    \/ \E p \in Procs : GetOrderStatsCount(p) /\ UNCHANGED kafka
    \/ \E p \in Procs : Return(p) /\ UNCHANGED kafka

SpecStats == Init /\ [][NextStats]_vars

RECURSIVE SumOf(_)
SumOf(counts) == IF counts = <<>> THEN 0 ELSE counts[1] + SumOf(Tail(counts))

\* C39: in every result of GetOrderStats "total" equals the sum of the counts of
\* pending, processing, completed, canceled and failed, also when orders are
\* created or change status while the counts are collected.
C39_TotalIsSumOfCounts ==
    \A c \in Returned :
        (c.op = "GetOrderStats" /\ c.err = "nil") =>
            /\ Len(c.stats) = Len(StatsStatuses) + 1
            /\ c.stats[1] = SumOf(Tail(c.stats))

\* ------------------------------------------ KafkaConsumer: Subscribe and Close
\* the errors the consumer group may hold ready on its Errors() channel
MaxErrors == 2

\* no Close has been called
Open == \A i \in Closers : consumer.close[i] = "idle"

\* the context Subscribe derived is cancelled: <-ctx.Done() is ready
Done(c) == c.ctx = "canceled"

\* an error-drain loop that never looks at the context
DrainCases_ErrorsOnly(c) == {"error" : x \in {1} \cap 1..c.errors}

\* the error-drain goroutine, "select { case <-ctx.Done(): return; case err :=
\* <-c.consumerGroup.Errors(): ... }": the cases that are ready; select picks
\* one of them
DrainCases(c) ==
    {"done" : x \in {1} \cap (IF Done(c) THEN {1} ELSE {})}
        \cup {"error" : x \in {1} \cap 1..c.errors}

\* Subscribe: "ctx, c.cancel = context.WithCancel(ctx)", "c.wg.Add(2)" and the
\* two go statements: both goroutines stand at their select
Subscribe ==
    /\ Open
    /\ ~consumer.cancel
    /\ consumer' = [consumer EXCEPT !.cancel = TRUE, !.ctx = "live", !.wg = 2,
                                    !.loop = "select", !.drain = "select"]
    /\ UNCHANGED <<topic, group, events, engine>>

\* main: the parent context of Subscribe is cancelled on shutdown, and the
\* derived context with it
Cancel ==
    /\ consumer.ctx = "live"
    /\ consumer' = [consumer EXCEPT !.ctx = "canceled"]
    /\ UNCHANGED <<topic, group, events, engine>>

\* the consume goroutine at its select: "case <-ctx.Done(): return" (with the
\* deferred c.wg.Done()), "default:" the call of consumerGroup.Consume
ConsumeLoop ==
    /\ consumer.loop = "select"
    /\ consumer' = IF Done(consumer)
                   THEN [consumer EXCEPT !.loop = "exited", !.wg = @ - 1]
                   ELSE [consumer EXCEPT !.loop = "consume"]
    /\ UNCHANGED <<topic, group, events, engine>>

\* consumerGroup.Consume returns: nil when the session ended (ConsumeClaim
\* returns on <-session.Context().Done()), or an error, after which the loop
\* logs and sleeps a second
ConsumeReturns ==
    /\ consumer.loop = "consume"
    /\ \E outcome \in Outcomes :
         consumer' = [consumer EXCEPT
                        !.loop = IF outcome = "nil" THEN "select" ELSE "sleep"]
    /\ UNCHANGED <<topic, group, events, engine>>

\* Consume does not outlive its context
ConsumeCanceled == Done(consumer) /\ ConsumeReturns

\* time.Sleep(time.Second) is over
Slept ==
    /\ consumer.loop = "sleep"
    /\ consumer' = [consumer EXCEPT !.loop = "select"]
    /\ UNCHANGED <<topic, group, events, engine>>

\* the consumer group reports an error on Errors()
ErrorReported ==
    /\ consumer.cancel
    /\ ~consumer.closed
    /\ consumer.errors < MaxErrors
    /\ consumer' = [consumer EXCEPT !.errors = @ + 1]
    /\ UNCHANGED <<topic, group, events, engine>>

\* the error-drain goroutine takes one ready case of its select: it returns
\* (with the deferred c.wg.Done()) or it logs an error and selects again
DrainErrors ==
    /\ consumer.drain = "select"
    /\ \E case \in DrainCases(consumer) :
         consumer' = IF case = "done"
                     THEN [consumer EXCEPT !.drain = "exited", !.wg = @ - 1]
                     ELSE [consumer EXCEPT !.errors = @ - 1]
    /\ UNCHANGED <<topic, group, events, engine>>

\* the turn of DrainErrors that leaves the loop
DrainExits == DrainErrors /\ consumer'.drain = "exited"

\* Close is called: "if c.cancel != nil { c.cancel() }"
Close(i) ==
    /\ consumer.close[i] = "idle"
    /\ consumer' = [consumer EXCEPT
                      !.close[i] = "wait",
                      !.ctx = IF consumer.cancel THEN "canceled" ELSE @]
    /\ UNCHANGED <<topic, group, events, engine>>

\* Close: c.wg.Wait() returns once the counter is zero
CloseWait(i) ==
    /\ consumer.close[i] = "wait"
    /\ consumer.wg = 0
    /\ consumer' = [consumer EXCEPT !.close[i] = "closing"]
    /\ UNCHANGED <<topic, group, events, engine>>

\* Close: c.consumerGroup.Close(), and the return of its error, wrapped, or nil
CloseGroup(i) ==
    /\ consumer.close[i] = "closing"
    /\ \E outcome \in Outcomes :
         consumer' = [consumer EXCEPT
                        !.close[i] = "returned", !.closed = TRUE,
                        !.err = IF outcome = "nil" THEN "nil"
                                ELSE Errorf("failed to close consumer group", StoreError)]
    /\ UNCHANGED <<topic, group, events, engine>>

\* the consumer from its construction to the return of Close
NextClose ==
    \/ Subscribe
    \/ Cancel
    \/ ConsumeLoop
    \/ ConsumeReturns
    \/ Slept
    \/ ErrorReported
    \/ DrainErrors
    \/ \E i \in Closers : Close(i)
    \/ \E i \in Closers : CloseWait(i)
    \/ \E i \in Closers : CloseGroup(i)

\* every goroutine that can take a step takes one; a select with several ready
\* cases does not pass over one of them for ever
FairnessClose ==
    /\ WF_vars(ConsumeLoop)
    /\ WF_vars(ConsumeCanceled)
    /\ WF_vars(Slept)
    /\ WF_vars(DrainExits)
    /\ \A i \in Closers : WF_vars(CloseWait(i))
    /\ \A i \in Closers : WF_vars(CloseGroup(i))

SpecClose == Init /\ [][NextClose]_vars /\ FairnessClose

\* C40: every call of Close returns, whether or not Subscribe was called before
\* it; when a call has returned the consumer group is closed, the WaitGroup
\* counts nothing and both goroutines Subscribe started have returned
C40_CloseTerminates ==
    /\ \A i \in Closers :
         (consumer.close[i] = "wait") ~> (consumer.close[i] = "returned")
    /\ []((\E i \in Closers : consumer.close[i] = "returned") =>
            /\ consumer.closed
            /\ consumer.wg = 0
            /\ consumer.loop \in {"none", "exited"}
            /\ consumer.drain \in {"none", "exited"})

\* Close has returned after a Subscribe whose goroutines were both running
C40_Witness ==
    /\ \E i \in Closers : consumer.close[i] = "returned"
    /\ consumer.cancel
    /\ consumer.loop = "exited"
    /\ consumer.drain = "exited"

====
